---- MODULE Spec2Model ----
(***************************************************************************)
(* AI orchestration pipeline of AI-Rooms-Backend: one run of               *)
(* AICoordinator.handle_message (app/ai/ai_coordinator.py) with the silent *)
(* tool executor (app/ai/tool_executor.py), the tools it dispatches to     *)
(* (app/ai/tools.py), the model gateway (app/ai/gemini_client.py) and the  *)
(* chat responder (app/ai/chat_responder.py).                              *)
(*                                                                         *)
(* Strings whose characters matter (message content, user names) are       *)
(* sequences of one-character strings; an emoji is one character.          *)
(* The external language model and the database are the environment: each  *)
(* call to them has the outcomes the calling code distinguishes (a value,  *)
(* None, or an exception).                                                 *)
(***************************************************************************)
EXTENDS Integers, Sequences, FiniteSets, TLC

(***************************************************************************)
(* Bounds of the model                                                     *)
(***************************************************************************)
\* the model proposes a call that adds an entry to executed_tools only
\* while the list is shorter than this
MaxEntries == 2

(***************************************************************************)
(* Characters and strings                                                  *)
(***************************************************************************)
Upper ==
    <<"A", "B", "C", "D", "E", "F", "G", "H", "I", "J", "K", "L", "M",
      "N", "O", "P", "Q", "R", "S", "T", "U", "V", "W", "X", "Y", "Z">>
LowerOfUpper ==
    <<"a", "b", "c", "d", "e", "f", "g", "h", "i", "j", "k", "l", "m",
      "n", "o", "p", "q", "r", "s", "t", "u", "v", "w", "x", "y", "z">>

\* str.lower() on one character
LowerChar(c) ==
    IF \E i \in 1..Len(Upper) : Upper[i] = c
    THEN LowerOfUpper[CHOOSE i \in 1..Len(Upper) : Upper[i] = c]
    ELSE c

\* str.lower()
Lower(s) == [i \in 1..Len(s) |-> LowerChar(s[i])]

\* Python's `needle in hay` on strings
Contains(hay, needle) ==
    \E k \in 0..(Len(hay) - Len(needle)) :
        \A i \in 1..Len(needle) : hay[k + i] = needle[i]

ThumbsUp == "U+1F44D"
Party == "U+1F389"

\* message contents handed to handle_message
MsgThumb == <<ThumbsUp>>
MsgDone == <<"d", "o", "n", "e">>
Messages ==
    {MsgThumb, MsgDone, <<"o", "k", "?">>, <<"H", "e", "l", "p">>, <<"w", "a", "i", "t">>}

\* ai_coordinator.py:264
triggers ==
    { <<"h", "e", "l", "p">>, <<"e", "x", "p", "l", "a", "i", "n">>,
      <<"w", "h", "a", "t">>, <<"h", "o", "w">>, <<"w", "h", "y">>,
      <<"w", "h", "e", "n">>, <<"w", "h", "e", "r", "e">>,
      <<"c", "a", "n", " ", "y", "o", "u">>,
      <<"p", "l", "e", "a", "s", "e">> }

\* ai_coordinator.py:269
ai_mentions ==
    { <<"v", "e", "y", "a">>, <<"a", "i">>,
      <<"a", "s", "s", "i", "s", "t", "a", "n", "t">>,
      <<"@", "a", "i">>, <<"@", "v", "e", "y", "a">> }

(***************************************************************************)
(* Values                                                                  *)
(***************************************************************************)
\* Python's None where a record is expected
None == [kind |-> "none"]
\* the emoji variable before any reaction, and an absent argument
NoEmoji == "None"
NoArg == <<>>

EmptyDict == [k \in {} |-> None]

\* dict[key] = value
DictSet(d, key, value) ==
    [k \in (DOMAIN d) \cup {key} |-> IF k = key THEN value ELSE d[k]]

\* the result execute_tools returns on every failure path
\* (tool_executor.py:197, 214, 287)
EmptyResult == [tools_executed |-> <<>>, tool_data |-> EmptyDict, reaction |-> NoEmoji]

(***************************************************************************)
(* Room roster and assignee resolution                                     *)
(***************************************************************************)
NameVeya == <<"V", "e", "y", "a">>
NameAli == <<"A", "l", "i">>
ReqAli == <<"a", "l", "i">>
ReqZed == <<"z", "e", "d">>

\* ToolExecutor._get_room_members: the AI first, then the room's members
RoomMembers ==
    << [id |-> "ai", username |-> NameVeya],
       [id |-> "u1", username |-> NameAli] >>

\* _find_member_by_username that keeps the last match
find_member_by_username_Last(members, username) ==
    IF username = NoArg THEN None
    ELSE LET lower == Lower(username)
             hits == {i \in 1..Len(members) : Contains(Lower(members[i].username), lower)}
         IN  IF hits = {} THEN None
             ELSE LET last == CHOOSE i \in hits : \A j \in hits : j <= i
                  IN  [kind |-> "member", id |-> members[last].id]

\* ToolExecutor._find_member_by_username; None when nothing matches
find_member_by_username(members, username) ==
    IF username = NoArg THEN None
    ELSE LET lower == Lower(username)
             hits == {i \in 1..Len(members) : Contains(Lower(members[i].username), lower)}
         IN  IF hits = {} THEN None
             ELSE LET first == CHOOSE i \in hits : \A j \in hits : i <= j
                  IN  [kind |-> "member", id |-> members[first].id]

\* the assignee_id _execute_tool passes on (tool_executor.py:301-305, 315-319)
ResolveAssignee(members, username) ==
    LET member == find_member_by_username(members, username)
    IN  IF member.kind = "member" THEN member.id ELSE "None"

(***************************************************************************)
(* Tools (app/ai/tools.py)                                                 *)
(***************************************************************************)
\* the tasks collection before the run: one open task
InitTasks ==
    << [id |-> 1, title |-> "T1", status |-> "todo", assignee_id |-> "None", due_date |-> "None"] >>

ValidDates == {"2025-01-01"}

\* tool_create_task that returns the document without waiting for the insert
tool_create_task_NoInsert(tasks, title, assignee_id, due_date) ==
    LET task == [id |-> Len(tasks) + 1,
                 title |-> title,
                 status |-> "todo",
                 assignee_id |-> IF assignee_id \in {"ai", "u1"} THEN assignee_id ELSE "None",
                 due_date |-> IF due_date \in ValidDates THEN due_date ELSE "None"]
    IN  [tasks |-> tasks, result |-> [kind |-> "task", task |-> task]]

\* tool_create_task: builds the document, inserts it, returns it.
\* An assignee that is neither "ai" nor a valid object id is left out,
\* and so is a due date that does not parse.
tool_create_task(tasks, title, assignee_id, due_date) ==
    LET task == [id |-> Len(tasks) + 1,
                 title |-> title,
                 status |-> "todo",
                 assignee_id |-> IF assignee_id \in {"ai", "u1"} THEN assignee_id ELSE "None",
                 due_date |-> IF due_date \in ValidDates THEN due_date ELSE "None"]
    IN  [tasks |-> Append(tasks, task), result |-> [kind |-> "task", task |-> task]]

\* tool_update_task_by_title: the first task of the room with that title
\* gets the new status and assignee; an error result when there is none
\* or nothing to change.
tool_update_task_by_title(tasks, task_title, status, assignee_id) ==
    LET hits == {i \in 1..Len(tasks) : tasks[i].title = task_title}
    IN  IF status = "None" /\ assignee_id = "None"
        THEN [tasks |-> tasks, result |-> [kind |-> "error", error |-> "No fields to update"]]
        ELSE IF hits = {}
        THEN [tasks |-> tasks, result |-> [kind |-> "error", error |-> "Task not found"]]
        ELSE LET i == CHOOSE h \in hits : \A j \in hits : h <= j
                 updated == [tasks[i] EXCEPT
                                !.status = IF status = "None" THEN @ ELSE status,
                                !.assignee_id = IF assignee_id = "None" THEN @ ELSE assignee_id]
             IN  [tasks |-> [tasks EXCEPT ![i] = updated],
                  result |-> [kind |-> "task", task |-> updated]]

\* tool_list_tasks: read only
tool_list_tasks(tasks) == [kind |-> "tasks", count |-> Len(tasks)]

\* tool_web_search: one synthesized item; gemini_client.search_web turns
\* its own failure into a text, so this never raises
tool_web_search(query) == [kind |-> "web"]

\* tool_translate_text: gemini_client.generate_response never raises
tool_translate_text(text) == [kind |-> "text"]

\* tool_summarize_messages
tool_summarize_messages(last_n) == [kind |-> "text"]

\* tool_react_to_message: one more reaction of that emoji on the message;
\* None when the message is not found
tool_react_to_message(reacts, emoji, found) ==
    IF found
    THEN [reactions |-> Append(reacts, emoji), result |-> [kind |-> "message"]]
    ELSE [reactions |-> reacts, result |-> None]

\* tool_search_documents, tool_ask_documents: read only
tool_search_documents(query) == [kind |-> "docs"]
tool_ask_documents(question) == [kind |-> "answer"]

(***************************************************************************)
(* What the model can answer in one turn of the executor's conversation    *)
(***************************************************************************)
FunctionCalls ==
    {[name |-> "create_task", title |-> "T2", assignee_username |-> a, due_date |-> "None"]
        : a \in {NoArg, ReqAli, ReqZed}}
    \cup {[name |-> "create_task", title |-> "T2", assignee_username |-> NoArg, due_date |-> "soon"]}
    \cup {[name |-> "update_task", task_title |-> t, status |-> "done", assignee_username |-> NoArg]
        : t \in {"T1", "T9"}}
    \cup {[name |-> "react_to_message", emoji |-> e] : e \in {NoEmoji, Party}}
    \cup {[name |-> n] : n \in {"list_tasks", "search_web", "translate_text",
                                "summarize_messages", "search_documents",
                                "ask_documents", "no_action", "bogus_tool"}}

\* a turn: the parts of the first candidate (none: no candidate or no
\* part); a part is a function call or text. A turn of one part, or of
\* two: text and then a function call, or two function calls.
Turns ==
    {<<>>, <<[function_call |-> FALSE]>>}
    \cup {<<[function_call |-> TRUE, fc |-> c]>> : c \in FunctionCalls}
    \cup { << [function_call |-> FALSE],
              [function_call |-> TRUE, fc |-> [name |-> "react_to_message", emoji |-> Party]] >>,
           << [function_call |-> TRUE, fc |-> [name |-> "list_tasks"]],
              [function_call |-> TRUE, fc |-> [name |-> "react_to_message", emoji |-> Party]] >> }

NoResponse == <<>>

(***************************************************************************)
(* State of one handle_message run                                         *)
(***************************************************************************)
VARIABLES
    client,            \* gemini_client.client: "none" without an API key
    content,           \* the message content
    pc,                \* where the run is
    context,           \* the room context gathered so far
    tasks,             \* db["tasks"] of the room
    reactions,         \* reactions written on the incoming message, in order
    response,          \* the executor conversation's latest turn
    executed_tools,    \* execute_tools: executed_tools
    tool_data,         \* execute_tools: tool_data
    reaction_emoji,    \* execute_tools: reaction_emoji
    call,              \* the function call being processed
    result,            \* its result
    tool_result,       \* what execute_tools returned
    ret,               \* what handle_message returned
    gatewayCalled,     \* a call to the model gateway was made in the run
    dispatched,        \* tools dispatched in the run: "none", "no_action" (only
                       \* no_action), "other" (some other tool)
    failure,           \* the exception execute_tools caught: "none", "gateway", "tool"
    responderInvoked,  \* chat_responder.generate_response was called
    responderFailure,  \* where the gateway failed in it: "none", "open", "send"
    retry,             \* one call of retry_with_backoff (gemini_client.py:20-55)
    classifier,        \* one call of MessageClassifier.should_respond
    chunker,           \* one call of RAGService._chunk_text: the text, `start`,
                       \* `chunks` and, for each chunk, where it lies in the text
    search,            \* one call of RAGService.semantic_search and the
                       \* document_chunks collection it reads
    roster,            \* one ToolExecutor resolving an assignee name
    rag,               \* the documents and document_chunks collections and
                       \* the requests at work on them
    runs               \* handle_message runs in progress at the same time

pipelineVars ==
    <<client, content, pc, context, tasks, reactions, response, executed_tools,
      tool_data, reaction_emoji, call, result, tool_result, ret,
      gatewayCalled, dispatched, failure, responderInvoked, responderFailure>>

\* the state of the library functions, which a handle_message run leaves alone
libVars == <<retry, classifier, chunker, search, roster, rag, runs>>

vars == <<pipelineVars, libVars>>


\* `failed` names the source whose fetch raised, "none" when none did
NoContext == [fields |-> {}, failed |-> "none", doc_snippets |-> "unset"]
NoCall == [name |-> "none"]
NotReturned == [kind |-> "pending"]
\* handle_message returned None
Null == [kind |-> "null"]
\* content None
NoContent == "None"
Reply == "reply"
\* chat_responder.py:75
Fallback == "I had trouble thinking of a response. Could you try again?"

\* is_configured that answers yes without looking at the client
is_configured_Always(c) == TRUE

\* GeminiClient.is_configured
is_configured(c) == c # "none"

\* no call of retry_with_backoff is in progress
RetryIdle == [pc |-> "idle", attempt |-> 0, outcomes |-> <<>>, sleeps |-> <<>>,
              last_exception |-> None]

\* no call of should_respond is in progress
ClassifierIdle ==
    [pc |-> "idle", content |-> <<>>, configured |-> FALSE, attempts |-> 0,
     outcome |-> <<>>, result |-> "None"]

\* no call of _chunk_text is in progress
ChunkerIdle == [pc |-> "idle", text |-> <<>>, start |-> 0, chunks |-> <<>>, spans |-> <<>>]

\* no call of semantic_search is in progress
SearchIdle ==
    [pc |-> "idle", store |-> <<>>, room_id |-> "none", limit |-> 0,
     query_embedding |-> <<>>, results |-> <<>>]

\* no assignee name is being resolved
RosterIdle ==
    [pc |-> "idle", members |-> <<>>, cache |-> <<>>, room_members |-> <<>>,
     username |-> <<>>, member |-> None]

\* no request is at work on the documents
RagIdle ==
    [rooms |-> {}, room_members |-> {}, documents |-> <<>>, chunks |-> <<>>,
     upload |-> [pc |-> "idle", room_id |-> "none", chunks |-> 0],
     remove |-> [pc |-> "idle", room_id |-> "none", user_id |-> "none",
                 document_id |-> "none", success |-> FALSE],
     room_delete |-> [pc |-> "idle", room_id |-> "none", requester_id |-> "none"],
     ask |-> [pc |-> "idle", entry |-> "none", room_id |-> "none", fetched |-> 0,
              relevant_chunks |-> <<>>, generated |-> FALSE, answer |-> "None",
              reply |-> <<>>]]

\* no run is in progress
RunsIdle ==
    [room_id |-> <<>>, pc |-> <<>>, frames |-> <<>>, ret |-> <<>>,
     tasks |-> <<>>, reactions |-> <<>>]

Init ==
    /\ client \in {"none", "genai"}
    /\ content \in Messages
    /\ pc = "start"
    /\ context = NoContext
    /\ tasks = InitTasks
    /\ reactions = <<>>
    /\ response = NoResponse
    /\ executed_tools = <<>>
    /\ tool_data = EmptyDict
    /\ reaction_emoji = NoEmoji
    /\ call = NoCall
    /\ result = None
    /\ tool_result = EmptyResult
    /\ ret = NotReturned
    /\ gatewayCalled = FALSE
    /\ dispatched = "none"
    /\ failure = "none"
    /\ responderInvoked = FALSE
    /\ responderFailure = "none"
    /\ retry = RetryIdle
    /\ classifier = ClassifierIdle
    /\ chunker = ChunkerIdle
    /\ search = SearchIdle
    /\ roster = RosterIdle
    /\ rag = RagIdle
    /\ runs = RunsIdle

(***************************************************************************)
(* AICoordinator.handle_message, lines 165-175                             *)
(***************************************************************************)
\* lines 167-168: without credentials the run returns None at once
CheckConfigured ==
    /\ pc = "start"
    /\ UNCHANGED libVars
    /\ IF is_configured(client)
       THEN /\ pc' = "gather"
            /\ ret' = ret
       ELSE /\ pc' = "done"
            /\ ret' = Null
    /\ UNCHANGED <<client, content, context, tasks, reactions, response, executed_tools,
                   tool_data, reaction_emoji, call, result, tool_result,
                   gatewayCalled, dispatched, failure, responderInvoked, responderFailure>>

\* gather_room_context fetches its sources in this order inside one try
ContextSources == <<"recent_messages", "active_tasks", "goals", "knowledge_base",
                    "room_name", "room_members">>

\* the fields set when the first n sources were fetched
GatheredFields(n) == {ContextSources[i] : i \in 1..n}

\* the source whose fetch raised when the first n were fetched
FailedSource(n) == IF n < Len(ContextSources) THEN ContextSources[n + 1] ELSE "none"

\* gather_room_context: a failing fetch ends the gathering, the fields set
\* before it stay (lines 90-133)
GatherContext ==
    /\ pc = "gather"
    /\ UNCHANGED libVars
    /\ \E n \in 0..Len(ContextSources) :
          context' = [context EXCEPT !.fields = GatheredFields(n),
                                     !.failed = FailedSource(n)]
    /\ pc' = "snippets"
    /\ UNCHANGED <<client, content, tasks, reactions, response, executed_tools,
                   tool_data, reaction_emoji, call, result, tool_result, ret,
                   gatewayCalled, dispatched, failure, responderInvoked, responderFailure>>

\* _get_document_snippets: the chunks found, [] on any failure (lines 62-79)
GetDocumentSnippets ==
    /\ pc = "snippets"
    /\ UNCHANGED libVars
    /\ \E s \in {"found", "empty"} :
          context' = [context EXCEPT !.doc_snippets = s]
    /\ pc' = "exec_members"
    /\ UNCHANGED <<client, content, tasks, reactions, response, executed_tools,
                   tool_data, reaction_emoji, call, result, tool_result, ret,
                   gatewayCalled, dispatched, failure, responderInvoked, responderFailure>>

(***************************************************************************)
(* ToolExecutor (app/ai/tool_executor.py)                                  *)
(***************************************************************************)
\* _execute_tool that carries out a reaction a second time
execute_tool_Twice(fc, db_tasks, reacts, members, found) ==
    IF fc.name = "react_to_message" /\ found
    THEN [tasks |-> db_tasks, reactions |-> reacts \o <<Party, Party>>,
          result |-> [kind |-> "message"]]
    ELSE [tasks |-> db_tasks, reactions |-> reacts, result |-> None]

\* ToolExecutor._execute_tool: dispatch on the tool name. `found` says
\* whether the incoming message is still in the messages collection.
execute_tool(fc, db_tasks, reacts, members, found) ==
    IF fc.name = "create_task"
    THEN LET r == tool_create_task(db_tasks, fc.title,
                                   ResolveAssignee(members, fc.assignee_username),
                                   fc.due_date)
         IN  [tasks |-> r.tasks, reactions |-> reacts, result |-> r.result]
    ELSE IF fc.name = "update_task"
    THEN LET r == tool_update_task_by_title(db_tasks, fc.task_title, fc.status,
                                            ResolveAssignee(members, fc.assignee_username))
         IN  [tasks |-> r.tasks, reactions |-> reacts, result |-> r.result]
    ELSE IF fc.name = "list_tasks"
    THEN [tasks |-> db_tasks, reactions |-> reacts, result |-> tool_list_tasks(db_tasks)]
    ELSE IF fc.name = "search_web"
    THEN [tasks |-> db_tasks, reactions |-> reacts, result |-> tool_web_search(NoArg)]
    ELSE IF fc.name = "translate_text"
    THEN [tasks |-> db_tasks, reactions |-> reacts, result |-> tool_translate_text(NoArg)]
    ELSE IF fc.name = "summarize_messages"
    THEN [tasks |-> db_tasks, reactions |-> reacts, result |-> tool_summarize_messages(20)]
    ELSE IF fc.name = "react_to_message"
    THEN LET emoji == IF fc.emoji = NoEmoji THEN ThumbsUp ELSE fc.emoji
             r == tool_react_to_message(reacts, emoji, found)
         IN  [tasks |-> db_tasks, reactions |-> r.reactions, result |-> r.result]
    ELSE IF fc.name = "search_documents"
    THEN [tasks |-> db_tasks, reactions |-> reacts, result |-> tool_search_documents(NoArg)]
    ELSE IF fc.name = "ask_documents"
    THEN [tasks |-> db_tasks, reactions |-> reacts, result |-> tool_ask_documents(NoArg)]
    ELSE IF fc.name = "no_action"
    THEN [tasks |-> db_tasks, reactions |-> reacts, result |-> [kind |-> "action_none"]]
    ELSE [tasks |-> db_tasks, reactions |-> reacts, result |-> None]

\* `result and not result.get("error")`
Succeeded(r) == r.kind # "none" /\ r.kind # "error"

\* the key of tool_data a tool's result is stored under, lines 245-262
DataKey(name) ==
    CASE name = "search_web" -> "web_search_result"
      [] name = "search_documents" -> "doc_search_result"
      [] name = "ask_documents" -> "doc_answer"
      [] name = "translate_text" -> "translation"
      [] name = "summarize_messages" -> "summary"
      [] name = "list_tasks" -> "tasks"

\* the entry type of those tools
DataType(name) ==
    CASE name = "search_web" -> "web_search"
      [] name = "search_documents" -> "document_search"
      [] name = "ask_documents" -> "document_answer"
      [] name = "translate_text" -> "translation"
      [] name = "summarize_messages" -> "summary"
      [] name = "list_tasks" -> "task_list"

DataTools == {"search_web", "search_documents", "ask_documents", "translate_text",
              "summarize_messages", "list_tasks"}

\* execute_tools lines 237-265: what one processed call adds to the
\* accumulators, and whether the loop breaks
TrackTool(fc, r, executed, data, emoji) ==
    IF fc.name = "create_task" /\ Succeeded(r)
    THEN [executed_tools |-> Append(executed, [type |-> "task_created", data |-> r]),
          tool_data |-> data, reaction_emoji |-> emoji, brk |-> FALSE]
    ELSE IF fc.name = "update_task" /\ Succeeded(r)
    THEN [executed_tools |-> Append(executed, [type |-> "task_updated", data |-> r]),
          tool_data |-> data, reaction_emoji |-> emoji, brk |-> FALSE]
    ELSE IF fc.name = "react_to_message"
    THEN LET e == IF fc.emoji = NoEmoji THEN ThumbsUp ELSE fc.emoji
         IN  [executed_tools |-> Append(executed, [type |-> "reaction", emoji |-> e,
                                                   message_id |-> "m1"]),
              tool_data |-> data, reaction_emoji |-> e, brk |-> FALSE]
    ELSE IF fc.name \in DataTools
    THEN [executed_tools |-> Append(executed, [type |-> DataType(fc.name), data |-> r]),
          tool_data |-> DictSet(data, DataKey(fc.name), r),
          reaction_emoji |-> emoji, brk |-> FALSE]
    ELSE IF fc.name = "no_action"
    THEN [executed_tools |-> executed, tool_data |-> data, reaction_emoji |-> emoji,
          brk |-> TRUE]
    ELSE [executed_tools |-> executed, tool_data |-> data, reaction_emoji |-> emoji,
          brk |-> FALSE]

\* lines 223-226: the turn has a candidate with parts and its first part
\* is a function call
HasFunctionCall(turn) == Len(turn) > 0 /\ turn[1].function_call

\* the turns the model answers with: a call that adds an entry only while
\* executed_tools is shorter than MaxEntries
ModelTurns(executed, db_tasks) ==
    LET AddsEntry(fc) ==
            \/ fc.name \in DataTools \cup {"create_task", "react_to_message"}
            \/ /\ fc.name = "update_task"
               /\ \E i \in 1..Len(db_tasks) : db_tasks[i].title = fc.task_title
    IN  {t \in Turns :
            \/ ~HasFunctionCall(t)
            \/ Len(executed) < MaxEntries
            \/ ~AddsEntry(t[1].fc)}

\* a handler that hands back what was accumulated before the exception
ExceptHandler_Partial(executed, data, emoji) ==
    [tools_executed |-> executed, tool_data |-> data, reaction |-> emoji]

\* lines 283-287: the handler of every exception raised inside the try
\* block answers with the empty result, whatever was accumulated
ExceptHandler(executed, data, emoji) == EmptyResult

\* execute_tools hands `res` to handle_message while its loop is at work
ExecReturn_StillRunning(res) ==
    /\ tool_result' = res
    /\ pc' = "decide"
    /\ UNCHANGED <<response, executed_tools, tool_data, reaction_emoji, call, result>>

\* execute_tools returns `res` to handle_message; its frame is gone
ExecReturn(res) ==
    /\ tool_result' = res
    /\ pc' = "decide"
    /\ response' = NoResponse
    /\ executed_tools' = <<>>
    /\ tool_data' = EmptyDict
    /\ reaction_emoji' = NoEmoji
    /\ call' = NoCall
    /\ result' = None

\* the frame of execute_tools is untouched
ExecFrameUnchanged ==
    UNCHANGED <<response, executed_tools, tool_data, reaction_emoji, call, result, tool_result>>

\* lines 196-199: the roster is fetched outside the try block; a failing
\* fetch propagates out of execute_tools and handle_message
ExecGetRoomMembers ==
    /\ pc = "exec_members"
    /\ UNCHANGED libVars
    /\ IF ~is_configured(client)
       THEN ExecReturn(EmptyResult)
       ELSE /\ pc' \in {"exec_chat", "raised"}
            /\ ExecFrameUnchanged
    /\ UNCHANGED <<client, content, context, tasks, reactions, ret,
                   gatewayCalled, dispatched, failure, responderInvoked, responderFailure>>

\* lines 205-214: open the conversation; no chat (None) or an exception
\* give the empty result. (The call passes tool_config, a keyword that
\* GeminiClient.create_chat at gemini_client.py:144-152 does not declare:
\* with that signature the call raises inside the try and only the failing
\* outcome is left. The other outcome is a gateway that takes the option.)
ExecCreateChat ==
    /\ pc = "exec_chat"
    /\ UNCHANGED libVars
    /\ gatewayCalled' = TRUE
    /\ \/ /\ pc' = "exec_send"
          /\ failure' = failure
          /\ ExecFrameUnchanged
       \/ /\ failure' = "gateway"
          /\ ExecReturn(ExceptHandler(executed_tools, tool_data, reaction_emoji))
    /\ UNCHANGED <<client, content, context, tasks, reactions, ret,
                   dispatched, responderInvoked, responderFailure>>

\* line 216: the first turn, or an exception (line 283)
ExecSendMessage ==
    /\ pc = "exec_send"
    /\ UNCHANGED libVars
    /\ \/ /\ response' \in ModelTurns(executed_tools, tasks)
          /\ pc' = "loop"
          /\ failure' = failure
          /\ UNCHANGED <<executed_tools, tool_data, reaction_emoji, call, result, tool_result>>
       \/ /\ failure' = "gateway"
          /\ ExecReturn(ExceptHandler(executed_tools, tool_data, reaction_emoji))
    /\ UNCHANGED <<client, content, context, tasks, reactions, ret,
                   gatewayCalled, dispatched, responderInvoked, responderFailure>>

\* lines 223-235: the loop reads the first part of the turn; a function
\* call is dispatched. An exception of the tool's operation reaches the
\* handler at line 283.
LoopDispatch ==
    /\ pc = "loop"
    /\ UNCHANGED libVars
    /\ HasFunctionCall(response)
    /\ LET fc == response[1].fc IN
       /\ dispatched' = IF fc.name = "no_action" /\ dispatched # "other"
                        THEN "no_action" ELSE "other"
       /\ \/ \E found \in BOOLEAN :
               LET r == execute_tool(fc, tasks, reactions, RoomMembers, found) IN
               /\ tasks' = r.tasks
               /\ reactions' = r.reactions
               /\ result' = r.result
               /\ call' = fc
               /\ pc' = "track"
               /\ failure' = failure
               /\ UNCHANGED <<response, executed_tools, tool_data, reaction_emoji, tool_result>>
          \* the tools whose operation can raise: they reach the database or
          \* the retrieval service, or convert an argument (int(last_n))
          \/ /\ fc.name \in {"create_task", "update_task", "list_tasks",
                              "summarize_messages", "react_to_message",
                              "search_documents", "ask_documents"}
             /\ failure' = "tool"
             /\ ExecReturn(ExceptHandler(executed_tools, tool_data, reaction_emoji))
             /\ UNCHANGED <<tasks, reactions>>
    /\ UNCHANGED <<client, content, context, ret, gatewayCalled, responderInvoked, responderFailure>>

\* lines 223, 273-281: no candidate, no part, or a first part that is not a
\* function call ends the loop; the accumulators are returned
LoopExit ==
    /\ pc = "loop"
    /\ UNCHANGED libVars
    /\ ~HasFunctionCall(response)
    /\ ExecReturn([tools_executed |-> executed_tools, tool_data |-> tool_data,
                   reaction |-> reaction_emoji])
    /\ UNCHANGED <<client, content, context, tasks, reactions, ret,
                   gatewayCalled, dispatched, failure, responderInvoked, responderFailure>>

\* lines 237-265: track the executed tool; no_action breaks the loop
Track ==
    /\ pc = "track"
    /\ UNCHANGED libVars
    /\ LET t == TrackTool(call, result, executed_tools, tool_data, reaction_emoji) IN
       IF t.brk
       THEN ExecReturn([tools_executed |-> t.executed_tools, tool_data |-> t.tool_data,
                        reaction |-> t.reaction_emoji])
       ELSE /\ executed_tools' = t.executed_tools
            /\ tool_data' = t.tool_data
            /\ reaction_emoji' = t.reaction_emoji
            /\ pc' = "reply"
            /\ UNCHANGED <<response, call, result, tool_result>>
    /\ UNCHANGED <<client, content, context, tasks, reactions, ret,
                   gatewayCalled, dispatched, failure, responderInvoked, responderFailure>>

\* lines 267-272: send the result back; the model's next turn, or an
\* exception (line 283)
SendResult ==
    /\ pc = "reply"
    /\ UNCHANGED libVars
    /\ \/ /\ response' \in ModelTurns(executed_tools, tasks)
          /\ pc' = "loop"
          /\ call' = NoCall
          /\ result' = None
          /\ failure' = failure
          /\ UNCHANGED <<executed_tools, tool_data, reaction_emoji, tool_result>>
       \/ /\ failure' = "gateway"
          /\ ExecReturn(ExceptHandler(executed_tools, tool_data, reaction_emoji))
    /\ UNCHANGED <<client, content, context, tasks, reactions, ret,
                   gatewayCalled, dispatched, responderInvoked, responderFailure>>

(***************************************************************************)
(* AICoordinator.handle_message, lines 189-225                             *)
(***************************************************************************)
\* the rule cascade without its first rule (only reactions: no text)
should_generate_response_NoReactionRule(text, executed, data) == TRUE

\* the first rule with any() in place of all()
should_generate_response_AnyReaction(text, executed, data) ==
    IF \E i \in 1..Len(executed) : executed[i].type = "reaction"
    THEN FALSE
    ELSE TRUE

\* the rule cascade with silence as its default
should_generate_response_DefaultSilent(text, executed, data) ==
    IF executed # <<>> /\ \A i \in 1..Len(executed) : executed[i].type = "reaction"
    THEN FALSE
    ELSE IF DOMAIN data # {}
    THEN TRUE
    ELSE IF \E i \in 1..Len(executed) : executed[i].type \in {"task_created", "task_updated"}
    THEN TRUE
    ELSE IF Contains(text, <<"?">>)
    THEN TRUE
    ELSE IF \E trigger \in triggers : Contains(Lower(text), trigger)
    THEN TRUE
    ELSE IF \E mention \in ai_mentions : Contains(Lower(text), mention)
    THEN TRUE
    ELSE FALSE

\* AICoordinator._should_generate_response
should_generate_response(text, executed, data) ==
    IF executed # <<>> /\ \A i \in 1..Len(executed) : executed[i].type = "reaction"
    THEN FALSE
    ELSE IF DOMAIN data # {}
    THEN TRUE
    ELSE IF \E i \in 1..Len(executed) : executed[i].type \in {"task_created", "task_updated"}
    THEN TRUE
    ELSE IF Contains(text, <<"?">>)
    THEN TRUE
    ELSE IF \E trigger \in triggers : Contains(Lower(text), trigger)
    THEN TRUE
    ELSE IF \E mention \in ai_mentions : Contains(Lower(text), mention)
    THEN TRUE
    ELSE TRUE

\* lines 189-205: decide whether text is needed; without it the run returns
\* the tool results with content None
Decide ==
    /\ pc = "decide"
    /\ UNCHANGED libVars
    /\ IF should_generate_response(content, tool_result.tools_executed, tool_result.tool_data)
       THEN /\ pc' = "respond"
            /\ ret' = ret
       ELSE /\ pc' = "done"
            /\ ret' = [kind |-> "result", action |-> "send_message", content |-> NoContent,
                       tools_executed |-> tool_result.tools_executed,
                       reaction |-> tool_result.reaction]
    /\ UNCHANGED <<client, content, context, tasks, reactions, response, executed_tools,
                   tool_data, reaction_emoji, call, result, tool_result,
                   gatewayCalled, dispatched, failure, responderInvoked, responderFailure>>

\* ChatResponder.generate_response: None without a chat, the model's text,
\* or the fallback text when sending raises (chat_responder.py:44-75)
ResponderOutcomes == {NoContent, Reply, Fallback}

\* chat_config that always carries tool definitions
chat_config_AlwaysTools(tools) == {"system_instruction", "tools"}

\* GeminiClient.create_chat lines 167-169: the config carries tool
\* definitions only when the caller passed some
chat_config(tools) ==
    {"system_instruction"} \cup (IF tools \notin {"None", <<>>} THEN {"tools"} ELSE {})

\* GeminiClient.create_chat: the chat, None when creating it raised
\* (gemini_client.py:164-188)
create_chat(event) == IF event = "open_raised" THEN "None" ELSE "chat"

\* ChatResponder.generate_response (chat_responder.py:44-75)
ChatResponder_generate_response(event) ==
    IF create_chat(event) = "None"
    THEN NoContent                     \* lines 58-59
    ELSE IF event = "send_raised"
    THEN Fallback                      \* lines 72-75
    ELSE IF event = "text"
    THEN Reply                         \* line 70
    ELSE NoContent

\* lines 207-225: generate the text and return. What the gateway does
\* during ChatResponder.generate_response is an event: create_chat raises
\* inside the gateway, send_message raises, the response carries a text,
\* or it carries none. The conversation is opened with tools=None
\* (chat_responder.py:59-63); a model that was given tool definitions
\* could answer with a function call, which has no text.
Respond ==
    /\ pc = "respond"
    /\ UNCHANGED libVars
    /\ responderInvoked' = TRUE
    /\ gatewayCalled' = TRUE
    /\ \E event \in {"open_raised", "send_raised", "text", "no_text"}
                      \cup (IF "tools" \in chat_config("None")
                            THEN {"function_call"} ELSE {}) :
          /\ responderFailure' = (IF event = "open_raised" THEN "open"
                                  ELSE IF event = "send_raised" THEN "send"
                                  ELSE "none")
          /\ ret' = [kind |-> "result", action |-> "send_message",
                     content |-> ChatResponder_generate_response(event),
                     tools_executed |-> tool_result.tools_executed,
                     reaction |-> tool_result.reaction]
    /\ pc' = "done"
    /\ UNCHANGED <<client, content, context, tasks, reactions, response, executed_tools,
                   tool_data, reaction_emoji, call, result, tool_result,
                   dispatched, failure>>

Next ==
    \/ CheckConfigured
    \/ GatherContext
    \/ GetDocumentSnippets
    \/ ExecGetRoomMembers
    \/ ExecCreateChat
    \/ ExecSendMessage
    \/ LoopDispatch
    \/ LoopExit
    \/ Track
    \/ SendResult
    \/ Decide
    \/ Respond

Spec == Init /\ [][Next]_vars

\* the run takes its next step whenever it has one
FairSpec == Spec /\ WF_vars(Next)

TypeOK ==
    /\ pc \in {"start", "gather", "snippets", "exec_members", "exec_chat", "exec_send",
               "loop", "track", "reply", "decide", "respond", "done", "raised"}
    /\ Len(executed_tools) <= MaxEntries

(***************************************************************************)
(* Properties                                                              *)
(***************************************************************************)
Returned == pc = "done" /\ ret.kind = "result"

\* every entry of the list is a reaction, and there is one
OnlyReactions(executed) ==
    executed # <<>> /\ \A i \in 1..Len(executed) : executed[i].type = "reaction"

HasReaction(executed) == \E i \in 1..Len(executed) : executed[i].type = "reaction"

\* C1: when the executor returned a non-empty tools_executed made of
\* reactions only, the Chat Responder is not invoked in the run and the
\* returned content is None.
C1_ReactionOnlySuppressesText ==
    (pc \in {"respond", "done"} /\ OnlyReactions(tool_result.tools_executed))
        => /\ pc = "done"
           /\ ~responderInvoked
           /\ ret.kind = "result"
           /\ ret.content = NoContent

C1_Witness ==
    /\ Returned
    /\ Len(ret.tools_executed) = 2
    /\ OnlyReactions(ret.tools_executed)

PlainMessage(text) ==
    /\ ~Contains(text, <<"?">>)
    /\ ~\E trigger \in triggers : Contains(Lower(text), trigger)
    /\ ~\E mention \in ai_mentions : Contains(Lower(text), mention)

\* C3 as stated: for a plain message, when the only tool call of the
\* executor is no_action, the run returns content None and the Chat
\* Responder is not invoked.
C3_PlainMessageGetsNoText ==
    (Returned /\ PlainMessage(content) /\ dispatched = "no_action")
        => (ret.content = NoContent /\ ~responderInvoked)

\* C3 amended: for a plain message, when the executor makes no tool call
\* other than no_action, the decision rule still requires text: the Chat
\* Responder is invoked and the content returned is its output.
C3_PlainMessageDefaultsToText ==
    (pc = "done" /\ client # "none" /\ PlainMessage(content) /\ dispatched # "other")
        => /\ responderInvoked
           /\ ret.kind = "result"
           /\ ret.tools_executed = <<>>
           /\ ret.content \in ResponderOutcomes

C3_Witness ==
    /\ Returned
    /\ content = MsgThumb
    /\ dispatched = "no_action"
    /\ ret.content = Reply

\* C4: without credentials the run returns None at once: no context is
\* gathered, no tool is dispatched, no gateway call is made and the tasks
\* and reactions are as before the run.
C4_UnconfiguredIsNoOp ==
    client = "none"
        => /\ pc \in {"start", "done"}
           /\ pc = "done" => ret = Null
           /\ context = NoContext
           /\ dispatched = "none"
           /\ ~gatewayCalled
           /\ ~responderInvoked
           /\ tasks = InitTasks
           /\ reactions = <<>>

C4_Witness == client = "none" /\ pc = "done" /\ ret = Null

C7_GatewayFailureGivesEmptyResult ==
    failure = "gateway"
        => /\ pc \in {"decide", "respond", "done"}
           /\ tool_result = EmptyResult
           /\ pc = "done" => (ret.kind = "result" /\ ret.tools_executed = <<>>
                              /\ ret.reaction = NoEmoji)

C7_Witness ==
    /\ failure = "gateway"
    /\ pc = "decide"
    /\ tool_result = EmptyResult
    /\ Len(tasks) > Len(InitTasks)

\* the tasks inserted, the tasks changed and the reactions written by the
\* run are all among the entries of the list
WritesReported(executed) ==
    /\ \A i \in (Len(InitTasks) + 1)..Len(tasks) :
          \E k \in 1..Len(executed) :
             executed[k].type = "task_created" /\ executed[k].data.task.id = tasks[i].id
    /\ \A i \in 1..Len(InitTasks) :
          tasks[i] # InitTasks[i] =>
             \E k \in 1..Len(executed) :
                executed[k].type = "task_updated" /\ executed[k].data.task.id = tasks[i].id
    /\ \A j \in 1..Len(reactions) :
          \E k \in 1..Len(executed) :
             executed[k].type = "reaction" /\ executed[k].emoji = reactions[j]

Committed(entry) ==
    entry.type \in {"task_created", "task_updated"}
        => \E i \in 1..Len(tasks) :
              /\ tasks[i].id = entry.data.task.id
              /\ tasks[i].title = entry.data.task.title
              /\ entry.type = "task_updated" => tasks[i].status = entry.data.task.status

\* C9: every task_created or task_updated entry, from the moment it is
\* appended until handle_message has returned it, names a write that is
\* already in the tasks collection.
C9_TaskEntriesAreCommitted ==
    /\ \A k \in 1..Len(executed_tools) : Committed(executed_tools[k])
    /\ \A k \in 1..Len(tool_result.tools_executed) : Committed(tool_result.tools_executed[k])
    /\ Returned => \A k \in 1..Len(ret.tools_executed) : Committed(ret.tools_executed[k])

C9_Witness ==
    /\ Returned
    /\ \E k \in 1..Len(ret.tools_executed) : ret.tools_executed[k].type = "task_created"
    /\ \E k \in 1..Len(ret.tools_executed) : ret.tools_executed[k].type = "task_updated"

C11_HandleMessageNeverRaises == pc # "raised"

\* C12 as stated: when one sub-fetch of the context gathering fails, only
\* the field of the failed source is absent and every other field is
\* populated.
C12_OneFailureLosesOneField ==
    (pc \notin {"start", "gather"} /\ context.failed # "none")
        => context.fields = {ContextSources[i] : i \in 1..Len(ContextSources)}
                               \ {context.failed}

\* C17 as stated: whenever the gateway fails during
\* ChatResponder.generate_response, at opening the conversation or at
\* sending the message, the text returned is the fixed fallback string.
C17_ResponderFailureGivesFallback ==
    (pc = "done" /\ responderFailure # "none") => ret.content = Fallback

\* C22: the stages of a run follow one another: the tool loop is entered
\* only to dispatch and track the calls of the executor's conversation,
\* execute_tools has returned (its frame is gone) before the decision, the
\* Chat Responder is started only after the decision, and from the moment
\* execute_tools has returned no task or reaction is written and no tool is
\* dispatched.
C22_ResponderAfterExecutorDrained ==
    [][/\ pc' = "decide" =>
             /\ pc \in {"exec_members", "exec_chat", "exec_send", "loop", "track", "reply"}
             /\ call' = NoCall /\ result' = None /\ response' = NoResponse
       /\ pc' = "respond" => pc = "decide"
       /\ (responderInvoked' /\ ~responderInvoked) => pc = "respond"
       /\ pc \in {"decide", "respond", "done"} =>
             /\ tasks' = tasks
             /\ reactions' = reactions
             /\ dispatched' = dispatched]_vars

C22_Witness ==
    /\ Returned
    /\ responderInvoked
    /\ Len(tasks) > Len(InitTasks)
    /\ Len(reactions) = 1
    /\ Len(ret.tools_executed) = 2

\* C23: the Chat Responder's conversation is opened without tool
\* definitions, whatever the context and the tool results, and between the
\* start and the end of generate_response no tool is dispatched and no task
\* or reaction is written.
C23_ResponderHasNoTools ==
    [][pc = "respond" =>
          /\ "tools" \notin chat_config("None")
          /\ tasks' = tasks
          /\ reactions' = reactions
          /\ dispatched' = dispatched
          /\ tool_result' = tool_result]_vars

C23_Witness ==
    /\ Returned
    /\ responderInvoked
    /\ ret.content = Reply
    /\ DOMAIN tool_result.tool_data # {}
    /\ dispatched = "other"

\* C24: a write to the tasks or to the reactions is made only by the
\* dispatch of the call the loop has just read, one write per call; the
\* loop reads a call only from a turn the model has just answered, so no
\* call is dispatched twice; and when a gateway call fails, sending a
\* result back included, execute_tools returns and nothing is written.
C24_ToolDispatchedOnce ==
    [][/\ (tasks' # tasks \/ reactions' # reactions) =>
             /\ pc = "loop" /\ HasFunctionCall(response)
             /\ pc' = "track" /\ call' = response[1].fc
             /\ Len(tasks') + Len(reactions') <= Len(tasks) + Len(reactions) + 1
             /\ Cardinality({i \in 1..Len(tasks) : tasks'[i] # tasks[i]}) <= 1
             /\ Len(tasks') + Len(reactions') > Len(tasks) + Len(reactions)
                   => \A i \in 1..Len(tasks) : tasks'[i] = tasks[i]
       /\ pc' = "loop" => (pc \in {"exec_send", "reply"} /\ call' = NoCall)
       /\ (failure' = "gateway" /\ failure # "gateway") =>
             /\ pc' = "decide"
             /\ tasks' = tasks
             /\ reactions' = reactions]_vars

C24_Witness ==
    /\ failure = "gateway"
    /\ pc = "decide"
    /\ Len(reactions) = 1
    /\ tasks = InitTasks

MAX_RETRIES == 3
BASE_DELAY == 1
MAX_DELAY == 10

\* messages of the exceptions the wrapped function raises
Errors ==
    { <<"M", "o", "d", "e", "l", " ", "O", "v", "e", "r", "l", "o", "a", "d", "e", "d">>,
      <<"r", "a", "t", "e", " ", "l", "i", "m", "i", "t", " ", "e", "x", "c", "e", "e", "d", "e", "d">>,
      <<"Q", "u", "o", "t", "a", " ", "e", "x", "h", "a", "u", "s", "t", "e", "d">>,
      <<"i", "n", "v", "a", "l", "i", "d", " ", "A", "p", "i", " ", "k", "e", "y">>,
      <<"4", "0", "0", " ", "B", "a", "d", " ", "R", "e", "q", "u", "e", "s", "t">> }

\* what a call of the wrapped function gives when it returns rather than
\* raises
Ok == <<"o", "k">>

\* line 45: the substrings that classify an error as transient
RetryableMarks ==
    { <<"5", "0", "3">>, <<"o", "v", "e", "r", "l", "o", "a", "d">>,
      <<"r", "a", "t", "e">>, <<"q", "u", "o", "t", "a">>,
      <<"u", "n", "a", "v", "a", "i", "l", "a", "b", "l", "e">> }

\* lines 42-45
is_retryable(e) == \E x \in RetryableMarks : Contains(Lower(e), x)

\* line 51, in whole seconds; jitter is random.uniform(0, 1)
retry_delay(attempt, jitter) ==
    LET d == BASE_DELAY * (2 ^ attempt) + jitter
    IN  IF d < MAX_DELAY THEN d ELSE MAX_DELAY

\* line 47 without the test of the last attempt
GivesUp_NoLastAttemptTest(e, attempt) == ~is_retryable(e)

\* line 47: the error is raised again
GivesUp(e, attempt) == ~is_retryable(e) \/ attempt = MAX_RETRIES - 1

\* the state when retry_with_backoff is entered (lines 35-37)
\* no handle_message run is in progress: the state after a run without
\* credentials
PipelineIdle ==
    /\ client = "none"
    /\ content = MsgDone
    /\ pc = "done"
    /\ context = NoContext
    /\ tasks = InitTasks
    /\ reactions = <<>>
    /\ response = NoResponse
    /\ executed_tools = <<>>
    /\ tool_data = EmptyDict
    /\ reaction_emoji = NoEmoji
    /\ call = NoCall
    /\ result = None
    /\ tool_result = EmptyResult
    /\ ret = Null
    /\ gatewayCalled = FALSE
    /\ dispatched = "none"
    /\ failure = "none"
    /\ responderInvoked = FALSE
    /\ responderFailure = "none"

RetryInit ==
    /\ retry = [RetryIdle EXCEPT !.pc = "attempt"]
    /\ classifier = ClassifierIdle
    /\ chunker = ChunkerIdle
    /\ search = SearchIdle
    /\ roster = RosterIdle
    /\ rag = RagIdle
    /\ runs = RunsIdle
    /\ PipelineIdle

\* lines 38-48: one attempt; it returns, raises again or goes to sleep
RetryAttempt ==
    /\ retry.pc = "attempt"
    /\ \E o \in {Ok} \cup Errors :
          IF o = Ok
          THEN retry' = [retry EXCEPT !.pc = "returned",
                                      !.outcomes = Append(@, o)]
          ELSE retry' = [retry EXCEPT !.pc = IF GivesUp(o, retry.attempt)
                                             THEN "raised" ELSE "sleep",
                                      !.outcomes = Append(@, o),
                                      !.last_exception = o]
    /\ UNCHANGED <<pipelineVars, classifier, chunker, search, roster, rag, runs>>

\* lines 51-53 and the loop header: sleep, then the next attempt; line 55
\* raises the last exception when the loop runs out
RetrySleep ==
    /\ retry.pc = "sleep"
    /\ \E jitter \in {0, 1} :
          retry' = [retry EXCEPT !.sleeps = Append(@, retry_delay(retry.attempt, jitter)),
                                 !.attempt = @ + 1,
                                 !.pc = IF retry.attempt + 1 < MAX_RETRIES
                                        THEN "attempt" ELSE "raised"]
    /\ UNCHANGED <<pipelineVars, classifier, chunker, search, roster, rag, runs>>

RetryNext == RetryAttempt \/ RetrySleep

RetrySpec == RetryInit /\ [][RetryNext]_vars

\* C13: when every attempt fails with a transient-classified error the call
\* is attempted exactly MAX_RETRIES times with a sleep between consecutive
\* attempts and none after the last, and the last error is raised; a
\* non-transient error is raised at once, with no sleep after it, so a call
\* whose first error is non-transient is attempted once and never sleeps; a
\* successful attempt ends the call, no attempt follows it.
C13_RetryDiscipline ==
    LET h == retry.outcomes
        n == Len(h)
    IN  /\ n <= MAX_RETRIES
        /\ \A i \in 1..(n - 1) : h[i] # Ok /\ is_retryable(h[i])
        /\ retry.pc = "raised" =>
              /\ n >= 1 /\ h[n] # Ok /\ retry.last_exception = h[n]
              /\ Len(retry.sleeps) = n - 1
              /\ is_retryable(h[n]) => n = MAX_RETRIES
              /\ ~is_retryable(h[1]) => (n = 1 /\ retry.sleeps = <<>>)
        /\ retry.pc = "returned" => (n >= 1 /\ h[n] = Ok /\ Len(retry.sleeps) = n - 1)
        /\ retry.pc = "attempt" => Len(retry.sleeps) = n
        /\ \A i \in 1..Len(retry.sleeps) :
              retry.sleeps[i] >= BASE_DELAY /\ retry.sleeps[i] <= MAX_DELAY

\* three transient failures: three attempts, two sleeps, the error raised
C13_Witness ==
    /\ retry.pc = "raised"
    /\ Len(retry.outcomes) = MAX_RETRIES
    /\ \A i \in 1..MAX_RETRIES : is_retryable(retry.outcomes[i])
    /\ Len(retry.sleeps) = MAX_RETRIES - 1
    /\ is_retryable(retry.last_exception)

(***************************************************************************)
(* Regular expressions of Python's re module, as far as the classifier     *)
(* uses them                                                               *)
(***************************************************************************)
\* the characters \w matches
WordChars ==
    {Upper[i] : i \in 1..Len(Upper)} \cup {LowerOfUpper[i] : i \in 1..Len(LowerOfUpper)}
        \cup {"0", "1", "2", "3", "4", "5", "6", "7", "8", "9", "_"}

\* the characters \s matches and str.split() and str.strip() treat as blank
IsSpace(c) == c \in {" ", "\n", "\t", "\r", "\f"}

\* a pattern is a sequence of elements: <<"lit", x>> a literal, <<"alt", xs>>
\* one of several literals, <<"opt", group>> an optional group, <<"ws">> for
\* \s+, <<"b">> for \b and <<"any">> for .*

\* the string w stands in s right after its first i characters
HasAt(s, i, w) == i + Len(w) <= Len(s) /\ \A k \in 1..Len(w) : s[i + k] = w[k]

\* \b between the i-th character and the next
WordBoundary(s, i) ==
    LET IsWordAt(k) == k \in 1..Len(s) /\ s[k] \in WordChars
    IN  IsWordAt(i) # IsWordAt(i + 1)

\* the pattern matches in s starting right after its first i characters
RECURSIVE Matches(_, _, _)
Matches(s, i, pat) ==
    IF pat = <<>>
    THEN TRUE
    ELSE LET e == Head(pat)
             rest == Tail(pat)
         IN  CASE e[1] = "lit" -> HasAt(s, i, e[2]) /\ Matches(s, i + Len(e[2]), rest)
               [] e[1] = "alt" -> \E w \in e[2] : HasAt(s, i, w) /\ Matches(s, i + Len(w), rest)
               [] e[1] = "opt" -> Matches(s, i, e[2] \o rest) \/ Matches(s, i, rest)
               [] e[1] = "ws" -> \E n \in 1..(Len(s) - i) :
                                    /\ \A k \in 1..n : IsSpace(s[i + k])
                                    /\ Matches(s, i + n, rest)
               [] e[1] = "b" -> WordBoundary(s, i) /\ Matches(s, i, rest)
               [] e[1] = "any" -> \E n \in 0..(Len(s) - i) :
                                     /\ \A k \in 1..n : s[i + k] # "\n"
                                     /\ Matches(s, i + n, rest)

\* re.search as a truth value; re.match is a match at the start
re_search(pat, s) == \E i \in 0..Len(s) : Matches(s, i, pat)

\* len(s.split())
WordCount(s) ==
    Cardinality({i \in 1..Len(s) : ~IsSpace(s[i]) /\ (i = 1 \/ IsSpace(s[i - 1]))})

\* str.strip()
Strip(s) ==
    LET inked == {i \in 1..Len(s) : ~IsSpace(s[i])}
    IN  IF inked = {} THEN <<>>
        ELSE SubSeq(s, CHOOSE i \in inked : \A j \in inked : i <= j,
                       CHOOSE i \in inked : \A j \in (i + 1)..Len(s) : IsSpace(s[j]))

(***************************************************************************)
(* MessageClassifier (app/ai/classifier.py)                                *)
(***************************************************************************)
\* classifier.py:11-17
ai_triggers ==
    { <<<<"b">>, <<"opt", <<<<"lit", <<"h", "e", "y">>>>, <<"ws">>>>>>, <<"lit", <<"a", "i">>>>, <<"b">>>>,
      <<<<"b">>, <<"opt", <<<<"lit", <<"h", "e", "y">>>>, <<"ws">>>>>>, <<"lit", <<"a", "s", "s", "i", "s", "t", "a", "n", "t">>>>, <<"b">>>>,
      <<<<"b">>, <<"opt", <<<<"lit", <<"h", "e", "y">>>>, <<"ws">>>>>>, <<"lit", <<"b", "o", "t">>>>, <<"b">>>>,
      <<<<"lit", <<"@", "a", "i">>>>>>,
      <<<<"lit", <<"@", "a", "s", "s", "i", "s", "t", "a", "n", "t">>>>>> }

\* classifier.py:19-31
question_patterns ==
    { <<<<"b">>, <<"lit", <<"c", "a", "n">>>>, <<"ws">>, <<"lit", <<"y", "o", "u">>>>, <<"b">>>>,
      <<<<"b">>, <<"lit", <<"c", "o", "u", "l", "d">>>>, <<"ws">>, <<"lit", <<"y", "o", "u">>>>, <<"b">>>>,
      <<<<"b">>, <<"lit", <<"w", "i", "l", "l">>>>, <<"ws">>, <<"lit", <<"y", "o", "u">>>>, <<"b">>>>,
      <<<<"b">>, <<"lit", <<"w", "o", "u", "l", "d">>>>, <<"ws">>, <<"lit", <<"y", "o", "u">>>>, <<"b">>>>,
      <<<<"b">>, <<"lit", <<"p", "l", "e", "a", "s", "e">>>>, <<"b">>, <<"any">>, <<"lit", <<"?">>>>>>,
      <<<<"b">>, <<"lit", <<"h", "e", "l", "p">>>>, <<"ws">>, <<"alt", {<<"m", "e">>, <<"u", "s">>}>>, <<"b">>>>,
      <<<<"b">>, <<"lit", <<"w", "h", "a", "t">>>>, <<"ws">>, <<"alt", {<<"i", "s">>, <<"a", "r", "e">>, <<"w", "a", "s">>, <<"w", "e", "r", "e">>}>>>>,
      <<<<"b">>, <<"lit", <<"h", "o", "w">>>>, <<"ws">>, <<"alt", {<<"d", "o">>, <<"d", "o", "e", "s">>, <<"c", "a", "n">>, <<"t", "o">>}>>>>,
      <<<<"b">>, <<"lit", <<"w", "h", "y">>>>, <<"ws">>, <<"alt", {<<"i", "s">>, <<"a", "r", "e">>, <<"d", "o">>, <<"d", "o", "e", "s">>}>>>>,
      <<<<"b">>, <<"lit", <<"w", "h", "e", "n">>>>, <<"ws">>, <<"alt", {<<"i", "s">>, <<"a", "r", "e">>, <<"d", "o">>, <<"d", "o", "e", "s">>, <<"s", "h", "o", "u", "l", "d">>}>>>>,
      <<<<"b">>, <<"lit", <<"w", "h", "e", "r", "e">>>>, <<"ws">>, <<"alt", {<<"i", "s">>, <<"a", "r", "e">>, <<"d", "o">>, <<"d", "o", "e", "s">>}>>>> }

\* classifier.py:33-41
task_keywords ==
    { <<<<"b">>, <<"lit", <<"c", "r", "e", "a", "t", "e">>>>, <<"ws">>, <<"opt", <<<<"lit", <<"a">>>>>>>>, <<"ws">>, <<"lit", <<"t", "a", "s", "k">>>>, <<"b">>>>,
      <<<<"b">>, <<"lit", <<"a", "d", "d">>>>, <<"ws">>, <<"opt", <<<<"lit", <<"a">>>>>>>>, <<"ws">>, <<"lit", <<"t", "a", "s", "k">>>>, <<"b">>>>,
      <<<<"b">>, <<"lit", <<"t", "o", "d", "o">>>>, <<"b">>>>,
      <<<<"b">>, <<"lit", <<"n", "e", "e", "d">>>>, <<"ws">>, <<"lit", <<"t", "o">>>>, <<"ws">>, <<"lit", <<"d", "o">>>>, <<"b">>>>,
      <<<<"b">>, <<"lit", <<"r", "e", "m", "i", "n", "d">>>>, <<"ws">>, <<"lit", <<"m", "e">>>>, <<"b">>>>,
      <<<<"b">>, <<"lit", <<"s", "c", "h", "e", "d", "u", "l", "e">>>>, <<"b">>>>,
      <<<<"b">>, <<"lit", <<"a", "s", "s", "i", "g", "n">>>>, <<"b">>>> }

\* classifier.py:84
greeting == <<<<"alt", {<<"h", "i">>, <<"h", "e", "l", "l", "o">>, <<"h", "e", "y">>}>>, <<"ws">>, <<"alt", {<<"a", "i">>, <<"a", "s", "s", "i", "s", "t", "a", "n", "t">>, <<"b", "o", "t">>}>>>>

\* classifier.py:88
commands == {<<"/", "a", "i">>, <<"/", "h", "e", "l", "p">>, <<"/", "s", "u", "m", "m", "a", "r", "i", "z", "e">>, <<"/", "t", "r", "a", "n", "s", "l", "a", "t", "e">>}

\* the rules of _check_rules that answer True (lines 66-89)
DirectAddress(text) == \E pat \in ai_triggers : re_search(pat, Lower(text))
TaskKeyword(text) == \E pat \in task_keywords : re_search(pat, Lower(text))
Question(text) ==
    /\ \E pat \in question_patterns : re_search(pat, Lower(text))
    /\ Contains(text, <<"?">>)
Greeting(text) == Matches(Lower(text), 0, greeting)
SlashCommand(text) == \E c \in commands : HasAt(Lower(text), 0, c)

\* _check_rules without the rule for short messages
check_rules_NoShortRule(text) ==
    IF DirectAddress(text) THEN "True"
    ELSE IF TaskKeyword(text) THEN "True"
    ELSE IF Question(text) THEN "True"
    ELSE IF Greeting(text) THEN "True"
    ELSE IF SlashCommand(text) THEN "True"
    ELSE "None"

\* MessageClassifier._check_rules (classifier.py:54-96)
check_rules(text) ==
    IF DirectAddress(text) THEN "True"
    ELSE IF TaskKeyword(text) THEN "True"
    ELSE IF Question(text) THEN "True"
    ELSE IF Greeting(text) THEN "True"
    ELSE IF SlashCommand(text) THEN "True"
    ELSE IF WordCount(text) < 3 THEN "False"
    ELSE "None"

\* message contents handed to should_respond
ClassifierMessages ==
    { <<"o", "k">>,
      <<"s", "o", "u", "n", "d", "s", " ", "g", "o", "o", "d">>,
      <<"H", "e", "y", " ", "A", "I">>,
      <<"r", "e", "m", "i", "n", "d", " ", "m", "e">>,
      <<"h", "o", "w", " ", "t", "o", "?">>,
      <<"c", "a", "n", " ", "y", "o", "u">>,
      <<"h", "e", "l", "l", "o", " ", "a", "s", "s", "i", "s", "t", "a", "n", "t", "s">>,
      <<"/", "h", "e", "l", "p">>,
      <<"w", "a", "i", "t">>,
      <<"c", "r", "e", "a", "t", "e", " ", "t", "a", "s", "k">>,
      <<" ", " ">>,
      <<"l", "u", "n", "c", "h", " ", "a", "t", " ", "n", "o", "o", "n", " ", "t", "o", "d", "a", "y">>,
      <<"r", "e", "v", "i", "e", "w", " ", "t", "h", "i", "s", " ", "d", "r", "a", "f", "t", " ", "t", "o", "n", "i", "g", "h", "t">>,
      <<"m", "y", " ", "T", "o", "d", "o", " ", "l", "i", "s", "t", " ", "g", "r", "o", "w", "s">>,
      <<"s", "e", "e", " ", "y", "o", "u", " ", "a", "l", "l", " ", "t", "o", "m", "o", "r", "r", "o", "w">>,
      <<"w", "h", "a", "t", " ", "i", "s">>,
      <<"@", "a", "i", "d", "a", "n", " ", "p", "i", "n", "g">> }

\* the errors of generate_content: those above and one whose message quotes
\* the end of the prompt (classifier.py:125)
GatewayErrors == Errors \cup {<<"I", "n", "v", "a", "l", "i", "d", " ", "p", "r", "o", "m", "p", "t", " ", "n", "e", "a", "r", " ", "'", "Y", "E", "S", "'", " ", "o", "r", " ", "'", "N", "O", "'">>}

\* what client.models.generate_content does: a response with a text, a
\* response whose text is None, or an exception
NoText == <<"N", "o", "n", "e", "T", "y", "p", "e">>

OverloadedPrefix ==
    <<"I", "'", "m", " ", "s", "o", "r", "r", "y", ",", " ", "I", "'", "m", " ", "c",
      "u", "r", "r", "e", "n", "t", "l", "y", " ", "o", "v", "e", "r", "l", "o", "a",
      "d", "e", "d", ".", " ", "P", "l", "e", "a", "s", "e", " ", "t", "r", "y", " ",
      "a", "g", "a", "i", "n", " ", "i", "n", " ", "a", " ", "m", "o", "m", "e", "n",
      "t", ".", " ", "(", "E", "r", "r", "o", "r", ":", " ">>

\* GeminiClient.generate_response (gemini_client.py:110-117): the text of
\* the response, or the apology with the error's message in it
GeminiClient_generate_response(o) ==
    IF o \in GatewayErrors THEN OverloadedPrefix \o o \o <<")">> ELSE o

\* classifier.py:127-135: the answer read off the text; lower() of a
\* missing text raises and the handler answers False
llm_answer(o) ==
    IF o = NoText THEN "False"
    ELSE IF Contains(Strip(Lower(GeminiClient_generate_response(o))), <<"y", "e", "s">>) THEN "True"
    ELSE "False"

\* should_respond is called with a message; the gateway has a key or not
ClassifierInit ==
    /\ \E m \in ClassifierMessages, k \in BOOLEAN :
          classifier = [ClassifierIdle EXCEPT !.pc = "rules", !.content = m,
                                              !.configured = k]
    /\ retry = RetryIdle
    /\ chunker = ChunkerIdle
    /\ search = SearchIdle
    /\ roster = RosterIdle
    /\ rag = RagIdle
    /\ runs = RunsIdle
    /\ PipelineIdle

\* should_respond, lines 47-49: the rules decide, or the model is asked
ShouldRespondRules ==
    /\ classifier.pc = "rules"
    /\ LET rule_result == check_rules(classifier.content)
       IN  IF rule_result # "None"
           THEN classifier' = [classifier EXCEPT !.pc = "done", !.result = rule_result]
           ELSE classifier' = [classifier EXCEPT !.pc = "llm"]
    /\ UNCHANGED <<pipelineVars, retry, chunker, search, roster, rag, runs>>

\* _llm_classify, lines 109-111: without a key the answer is True
LlmClassifyConfigured ==
    /\ classifier.pc = "llm"
    /\ IF classifier.configured
       THEN classifier' = [classifier EXCEPT !.pc = "gateway"]
       ELSE classifier' = [classifier EXCEPT !.pc = "done", !.result = "True"]
    /\ UNCHANGED <<pipelineVars, retry, chunker, search, roster, rag, runs>>

\* GeminiClient.generate_response, lines 110-117: one call of
\* generate_content, whose text or whose failure is turned into a text
GatewayGenerate ==
    /\ classifier.pc = "gateway"
    /\ \E o \in {<<"Y", "E", "S">>, <<"N", "O">>, NoText} \cup GatewayErrors :
          classifier' = [classifier EXCEPT !.pc = "answer", !.outcome = o,
                                           !.attempts = @ + 1]
    /\ UNCHANGED <<pipelineVars, retry, chunker, search, roster, rag, runs>>

\* _llm_classify, lines 131-135
LlmClassifyAnswer ==
    /\ classifier.pc = "answer"
    /\ classifier' = [classifier EXCEPT !.pc = "done",
                                        !.result = llm_answer(classifier.outcome)]
    /\ UNCHANGED <<pipelineVars, retry, chunker, search, roster, rag, runs>>

ClassifierNext ==
    \/ ShouldRespondRules
    \/ LlmClassifyConfigured
    \/ GatewayGenerate
    \/ LlmClassifyAnswer

ClassifierSpec == ClassifierInit /\ [][ClassifierNext]_vars

\* C14 as stated: a model call that fails with a transient error is
\* attempted again, up to MAX_RETRIES attempts, before the fallback value
\* reaches the caller; here the call is the classifier's generation.
C14_TransientFailureIsRetried ==
    (classifier.pc \in {"answer", "done"} /\ classifier.outcome \in GatewayErrors
       /\ is_retryable(classifier.outcome))
        => classifier.attempts = MAX_RETRIES

\* some deterministic rule of _check_rules answers True for the text
DeterministicTrigger(text) ==
    \/ DirectAddress(text)
    \/ TaskKeyword(text)
    \/ Question(text)
    \/ Greeting(text)
    \/ SlashCommand(text)

\* C15: for a message of fewer than three words that matches no
\* deterministic trigger, should_respond returns False and has made no
\* call to the model gateway.
C15_ShortMessageIsSilent ==
    (classifier.pc \notin {"idle", "rules"} /\ WordCount(classifier.content) < 3
       /\ ~DeterministicTrigger(classifier.content))
        => (classifier.pc = "done" /\ classifier.result = "False" /\ classifier.attempts = 0)

\* the two-word message "can you" (a question pattern without "?") has
\* been answered
C15_Witness ==
    /\ classifier.pc = "done"
    /\ classifier.content = <<"c", "a", "n", " ", "y", "o", "u">>
    /\ classifier.configured
    /\ classifier.result = "False"

\* C16 as stated: when the model-backed classification call fails at the
\* gateway, should_respond returns False, whatever the text of the error.
C16_ClassifierFailsClosed ==
    (classifier.pc = "done" /\ classifier.outcome \in GatewayErrors)
        => classifier.result = "False"

(***************************************************************************)
(* RAGService._chunk_text (app/services/rag_service.py:57-96)              *)
(***************************************************************************)
chunk_size == 1000
chunk_overlap == 200
\* line 85: a break point is looked for in the last 100 characters
break_window == 100

\* the longest page text of the model
MaxTextLen == 2500

\* page texts: the letter x everywhere except where a decoration, a map
\* from positions (from 1) to characters, puts a separator
Text(len, deco) == [i \in 1..len |-> IF i \in DOMAIN deco THEN deco[i] ELSE "x"]

Decorations ==
    { [i \in {} |-> " "],
      \* words of six letters
      [i \in {k \in 1..(MaxTextLen + 1) : k % 7 = 0} |-> " "],
      \* ". " inside the window of the first chunk
      (951 :> ".") @@ (952 :> " "),
      \* a blank just before the window
      (900 :> " "),
      \* a paragraph break at the very end of the window
      (999 :> "\n") @@ (1000 :> "\n"),
      \* blanks on both sides of the first cut
      [i \in 991..1011 |-> " "],
      \* a sentence end and, after it, a blank: the sentence end is preferred
      (921 :> ".") @@ (922 :> " ") @@ (961 :> " "),
      \* ". " across the end of the first window
      (1000 :> ".") @@ (1001 :> " "),
      \* blanks at the start of the text and at the start of the second window
      (1 :> " ") @@ (2 :> "\n") @@ (801 :> " ") @@ (802 :> " "),
      \* a line end in the window of the second chunk
      (1751 :> ".") @@ (1752 :> "\n"),
      \* a blank page
      [i \in 1..(MaxTextLen + 1) |-> " "] }

\* line 84
Separators == << <<".", " ">>, <<".", "\n">>, <<"\n", "\n">>, <<"\n">>, <<" ">> >>

\* text[a:b], with indexes from 0 as in the code
Slice(text, a, b) == SubSeq(text, a + 1, IF b < Len(text) THEN b ELSE Len(text))

\* text.rfind(sep, a, b): the highest index in [a, b - len(sep)] at which
\* sep stands, -1 when there is none
rfind(text, sep, a, b) ==
    LET lo == IF a < 0 THEN (IF Len(text) + a < 0 THEN 0 ELSE Len(text) + a) ELSE a
        hi == IF b < Len(text) THEN b ELSE Len(text)
        hits == {i \in lo..(hi - Len(sep)) : HasAt(text, i, sep)}
    IN  IF hits = {} THEN -1 ELSE CHOOSE i \in hits : \A j \in hits : j <= i

\* lines 84-88: the end of the chunk after the first separator, in the
\* order of the list, that is found in the window
break_point(text, start, end, size) ==
    LET found == {k \in 1..Len(Separators) :
                     rfind(text, Separators[k], start + size - break_window, end) > start}
    IN  IF found = {} THEN end
        ELSE LET k == CHOOSE x \in found : \A y \in found : x <= y
             IN  rfind(text, Separators[k], start + size - break_window, end)
                     + Len(Separators[k])

\* a window one character longer than the size
chunk_end_Long(text, start, size) == start + size + 1

\* lines 79-88
chunk_end(text, start, size) ==
    IF start + size < Len(text)
    THEN break_point(text, start, start + size, size)
    ELSE start + size

\* line 94 with the overlap added instead of subtracted
next_start_Gap(end, overlap) == end + overlap

\* line 94
next_start(end, overlap) == end - overlap

\* the positions (from 1) of the first and the last character of
\* text[a:b] that strip() keeps, <<1, 0>> when it keeps none
KeptSpan(text, a, b) ==
    LET last == IF b < Len(text) THEN b ELSE Len(text)
        inked == {i \in (a + 1)..last : ~IsSpace(text[i])}
    IN  IF inked = {} THEN <<1, 0>>
        ELSE << CHOOSE i \in inked : \A j \in inked : i <= j,
                CHOOSE i \in inked : \A j \in (i + 1)..last : IsSpace(text[j]) >>

\* _chunk_text is called on a page text with the default sizes
ChunkInit ==
    /\ \E len \in {0, 1, chunk_size, chunk_size + 1, 1100, 1801, 1900, MaxTextLen},
          deco \in Decorations :
          chunker = [ChunkerIdle EXCEPT !.pc = "entry", !.text = Text(len, deco)]
    /\ retry = RetryIdle
    /\ classifier = ClassifierIdle
    /\ search = SearchIdle
    /\ roster = RosterIdle
    /\ rag = RagIdle
    /\ runs = RunsIdle
    /\ PipelineIdle

\* lines 72-76: a text that fits in one chunk is returned whole, unless
\* it is blank
ChunkShortText ==
    /\ chunker.pc = "entry"
    /\ IF Len(chunker.text) <= chunk_size
       THEN chunker' = [chunker EXCEPT
                           !.pc = "done",
                           !.chunks = IF Strip(chunker.text) # <<>>
                                      THEN <<chunker.text>> ELSE <<>>,
                           !.spans = IF Strip(chunker.text) # <<>>
                                     THEN << <<1, Len(chunker.text)>> >> ELSE <<>>]
       ELSE chunker' = [chunker EXCEPT !.pc = "loop", !.start = 0]
    /\ UNCHANGED <<pipelineVars, retry, classifier, search, roster, rag, runs>>

\* lines 78-94: one round of the loop
ChunkNext ==
    /\ chunker.pc = "loop"
    /\ chunker.start < Len(chunker.text)
    /\ chunker' =
          LET end == chunk_end(chunker.text, chunker.start, chunk_size)
              chunk == Strip(Slice(chunker.text, chunker.start, end))
          IN  [chunker EXCEPT
                  !.chunks = IF chunk # <<>> THEN Append(@, chunk) ELSE @,
                  !.spans = IF chunk # <<>>
                            THEN Append(@, KeptSpan(chunker.text, chunker.start, end))
                            ELSE @,
                  !.start = next_start(end, chunk_overlap)]
    /\ UNCHANGED <<pipelineVars, retry, classifier, search, roster, rag, runs>>

\* lines 78 and 96: the loop is over, the chunks are returned
ChunkReturn ==
    /\ chunker.pc = "loop"
    /\ chunker.start >= Len(chunker.text)
    /\ chunker' = [chunker EXCEPT !.pc = "done"]
    /\ UNCHANGED <<pipelineVars, retry, classifier, search, roster, rag, runs>>

ChunkerNext == ChunkShortText \/ ChunkNext \/ ChunkReturn

ChunkerSpec == ChunkInit /\ [][ChunkerNext]_vars

\* the call runs on until it has returned: nothing but its own loop keeps
\* _chunk_text from its next step
ChunkerFairSpec ==
    ChunkerSpec /\ ([]<>(chunker.pc = "done") \/ []<><<ChunkerNext>>_vars)

\* the chunks in order, each without the part that overlaps the chunks
\* before it; `upto` is the last position they reach
RECURSIVE WithoutOverlap(_, _, _, _)
WithoutOverlap(chunks, spans, i, upto) ==
    IF i > Len(chunks) THEN <<>>
    ELSE LET lo == spans[i][1]
             hi == spans[i][2]
             from == IF lo > upto THEN lo ELSE upto + 1
             part == IF hi < from THEN <<>>
                     ELSE SubSeq(chunks[i], from - lo + 1, Len(chunks[i]))
         IN  part \o WithoutOverlap(chunks, spans, i + 1, IF hi > upto THEN hi ELSE upto)

\* the text without the characters that lie in no chunk
RECURSIVE CoveredText(_, _, _, _)
CoveredText(text, spans, i, upto) ==
    IF i > Len(spans) THEN <<>>
    ELSE LET lo == spans[i][1]
             hi == spans[i][2]
             from == IF lo > upto THEN lo ELSE upto + 1
         IN  SubSeq(text, from, hi)
                 \o CoveredText(text, spans, i + 1, IF hi > upto THEN hi ELSE upto)

\* the positions of the text that lie in no chunk
Uncovered(text, spans) ==
    {p \in 1..Len(text) : \A i \in 1..Len(spans) : p < spans[i][1] \/ p > spans[i][2]}

\* C18: the chunks of a page text, in order and each without the part that
\* overlaps its predecessors, make up the text again except for white
\* space where chunks begin and end: the chunks follow the text, the
\* concatenation equals the text without the characters in no chunk, and
\* every character in no chunk is white space.
C18_ChunkingIsLossless ==
    chunker.pc = "done" =>
        /\ Len(chunker.spans) = Len(chunker.chunks)
        /\ \A i \in 1..(Len(chunker.spans) - 1) :
              /\ chunker.spans[i][1] <= chunker.spans[i + 1][1]
              /\ chunker.spans[i][2] <= chunker.spans[i + 1][2]
        /\ WithoutOverlap(chunker.chunks, chunker.spans, 1, 0)
              = CoveredText(chunker.text, chunker.spans, 1, 0)
        /\ \A p \in Uncovered(chunker.text, chunker.spans) : IsSpace(chunker.text[p])

\* a text cut into three or more chunks, with white space dropped at a cut
C18_Witness ==
    /\ chunker.pc = "done"
    /\ Len(chunker.chunks) >= 3
    /\ Uncovered(chunker.text, chunker.spans) # {}
    /\ \E p \in 1..Len(chunker.text) : ~IsSpace(chunker.text[p])

\* C30: with the configured sizes _chunk_text returns on every text: the
\* window start grows on every round of the loop, and no chunk is longer
\* than chunk_size.
C30_ChunkTextTerminates ==
    /\ <>(chunker.pc = "done")
    /\ [][(chunker.pc = "loop" /\ chunker'.pc = "loop")
             => chunker'.start > chunker.start]_vars
    /\ [](\A i \in 1..Len(chunker.chunks) : Len(chunker.chunks[i]) <= chunk_size)

C30_Witness ==
    /\ chunker.pc = "done"
    /\ Len(chunker.text) = MaxTextLen
    /\ Len(chunker.chunks) >= 3
    /\ \E i \in 1..Len(chunker.chunks) : Len(chunker.chunks[i]) = chunk_size

(***************************************************************************)
(* RAGService.semantic_search (app/services/rag_service.py:349-409)        *)
(***************************************************************************)
\* line 372: to_list(length=1000)
FetchLimit == 1000

\* a collection of the model holds at most this many chunks, except the
\* one collection that is larger than the fetch limit
MaxChunks == 2

\* embeddings, with two components instead of 768; line 197: the fallback
\* of a failed embedding call is the zero vector
ZeroVector == <<0, 0>>

\* what embed_content gives for the query: a vector, or an exception
EmbedOutcomes ==
    {[raised |-> FALSE, values |-> v] : v \in {<<3, 4>>, <<5, 0>>}}
        \cup {[raised |-> TRUE, values |-> <<>>]}

\* RAGService.generate_embedding (lines 182-197)
generate_embedding(outcome) == IF outcome.raised THEN ZeroVector ELSE outcome.values

\* the document_chunks collection in its natural order; a chunk's id is
\* its place in it
Store(kinds) ==
    [i \in 1..Len(kinds) |->
        [id |-> i, room_id |-> kinds[i].room_id, embedding |-> kinds[i].embedding]]

\* the collections of at most MaxChunks chunks, over two rooms
SmallStores ==
    LET kinds == [room_id : {"r1", "r2"},
                  embedding : {<<3, 4>>, <<4, 3>>, <<-3, -4>>, <<6, 8>>, ZeroVector}]
    IN  {Store(ks) : ks \in UNION {[1..n -> kinds] : n \in 0..MaxChunks}}

\* a room with one chunk more than the fetch limit, the last one the
\* closest to the query <<3, 4>>
LargeStore ==
    Store([i \in 1..(FetchLimit + 1) |->
              [room_id |-> "r1",
               embedding |-> IF i <= FetchLimit THEN <<4, 3>> ELSE <<3, 4>>]])

\* sum(x * y for x, y in zip(a, b))
RECURSIVE DotFrom(_, _, _)
DotFrom(a, b, i) == IF i > Len(a) THEN 0 ELSE a[i] * b[i] + DotFrom(a, b, i + 1)

\* math.sqrt, on the squares of whole numbers
Sqrt(n) == CHOOSE r \in 0..n : r * r = n

\* similarities are fractions <<numerator, denominator>>
Zero == <<0, 1>>
Greater(x, y) == x[1] * y[2] > y[1] * x[2]
Equal(x, y) == x[1] * y[2] = y[1] * x[2]

\* RAGService._cosine_similarity (lines 395-409)
cosine_similarity(a, b) ==
    IF Len(a) # Len(b) THEN Zero
    ELSE LET dot_product == DotFrom(a, b, 1)
             magnitude_a == Sqrt(DotFrom(a, a, 1))
             magnitude_b == Sqrt(DotFrom(b, b, 1))
         IN  IF magnitude_a = 0 \/ magnitude_b = 0 THEN Zero
             ELSE <<dot_product, magnitude_a * magnitude_b>>

\* the place of results[i] after results.sort(key=similarity, reverse=True):
\* behind the entries with a higher similarity and behind the earlier
\* entries with the same one (the sort is stable)
Rank(results, i) ==
    1 + Cardinality({j \in 1..Len(results) :
                        \/ Greater(results[j].similarity, results[i].similarity)
                        \/ /\ Equal(results[j].similarity, results[i].similarity)
                           /\ j < i})

\* lines 392-393: sort, then results[:limit]
sorted_head(results, limit) ==
    [r \in 1..(IF limit < Len(results) THEN limit ELSE Len(results)) |->
        results[CHOOSE i \in 1..Len(results) : Rank(results, i) = r]]

\* semantic_search that reads the chunks of every room
semantic_search_AnyRoom(store, room_id, query_embedding, limit) ==
    LET results == [i \in 1..Len(store) |->
                       [chunk_id |-> store[i].id,
                        similarity |-> cosine_similarity(query_embedding,
                                                         store[i].embedding)]]
    IN  sorted_head(results, limit)

\* RAGService.semantic_search, lines 369-393
semantic_search(store, room_id, query_embedding, limit) ==
    LET InRoom(c) == c.room_id = room_id
        found == SelectSeq(store, InRoom)
        chunks == SubSeq(found, 1, IF Len(found) < FetchLimit THEN Len(found) ELSE FetchLimit)
        HasEmbedding(c) == c.embedding # <<>>
        scored == SelectSeq(chunks, HasEmbedding)
        results == [i \in 1..Len(scored) |->
                       [chunk_id |-> scored[i].id,
                        similarity |-> cosine_similarity(query_embedding,
                                                         scored[i].embedding)]]
    IN  IF chunks = <<>> THEN <<>> ELSE sorted_head(results, limit)

\* semantic_search is called for a room and a limit on some collection
SearchInit ==
    /\ \/ \E st \in SmallStores, r \in {"r1", "r2"}, k \in {1, 2} :
             search = [SearchIdle EXCEPT !.pc = "embed", !.store = st,
                                         !.room_id = r, !.limit = k]
       \/ search = [SearchIdle EXCEPT !.pc = "embed", !.store = LargeStore,
                                      !.room_id = "r1", !.limit = 1]
    /\ retry = RetryIdle
    /\ classifier = ClassifierIdle
    /\ chunker = ChunkerIdle
    /\ roster = RosterIdle
    /\ rag = RagIdle
    /\ runs = RunsIdle
    /\ PipelineIdle

\* line 367: the query is embedded
SearchEmbedQuery ==
    /\ search.pc = "embed"
    /\ \E o \in EmbedOutcomes :
          search' = [search EXCEPT !.pc = "rank",
                                   !.query_embedding = generate_embedding(o)]
    /\ UNCHANGED <<pipelineVars, retry, classifier, chunker, roster, rag, runs>>

\* lines 369-393: the chunks are fetched, scored, sorted and cut
SearchRank ==
    /\ search.pc = "rank"
    /\ search' = [search EXCEPT
                     !.pc = "done",
                     !.results = semantic_search(search.store, search.room_id,
                                                 search.query_embedding, search.limit)]
    /\ UNCHANGED <<pipelineVars, retry, classifier, chunker, roster, rag, runs>>

SearchNext == SearchEmbedQuery \/ SearchRank

SearchSpec == SearchInit /\ [][SearchNext]_vars

\* the chunk a result stands for
ResultChunk(r) == search.store[r.chunk_id]

\* the chunks of the queried room that are not among the results
LeftOut ==
    {c \in 1..Len(search.store) :
        /\ search.store[c].room_id = search.room_id
        /\ \A i \in 1..Len(search.results) : search.results[i].chunk_id # c}

\* C19 as stated: semantic_search returns at most `limit` results, all of
\* the queried room, in order of non-increasing similarity, and no chunk of
\* the room that is left out has a strictly higher similarity than a
\* returned one.
C19_SearchReturnsTopK ==
    search.pc = "done" =>
        LET res == search.results
        IN  /\ Len(res) <= search.limit
            /\ \A i \in 1..Len(res) : ResultChunk(res[i]).room_id = search.room_id
            /\ \A i \in 1..(Len(res) - 1) : ~Greater(res[i + 1].similarity, res[i].similarity)
            /\ \A c \in LeftOut : \A i \in 1..Len(res) :
                  ~Greater(cosine_similarity(search.query_embedding,
                                             search.store[c].embedding),
                           res[i].similarity)

\* C20 as stated: a similarity that involves the zero vector is 0 and no
\* similarity is a division by zero, and in the ranking every chunk whose
\* embedding is the zero vector comes after every chunk whose embedding is
\* not.
C20_ZeroVectorsRankLast ==
    search.pc = "done" =>
        LET res == search.results
        IN  /\ \A i \in 1..Len(res) :
                  /\ res[i].similarity[2] # 0
                  /\ (search.query_embedding = ZeroVector
                        \/ ResultChunk(res[i]).embedding = ZeroVector)
                       => Equal(res[i].similarity, Zero)
            /\ \A i, j \in 1..Len(res) :
                  (i < j /\ ResultChunk(res[i]).embedding = ZeroVector)
                      => ResultChunk(res[j]).embedding = ZeroVector
            /\ \A c \in LeftOut : \A i \in 1..Len(res) :
                  ResultChunk(res[i]).embedding = ZeroVector
                      => search.store[c].embedding = ZeroVector

(***************************************************************************)
(* Documents of a room: RAGService.process_document, ask_document and      *)
(* delete_document (app/services/rag_service.py), the documents routes     *)
(* (app/routers/documents.py), the /ask command (app/routers/ws.py) and    *)
(* RoomService.delete_room (app/services/room_service.py). Each request    *)
(* takes a step at the database and model calls it awaits, and the         *)
(* requests interleave at those calls.                                     *)
(***************************************************************************)
\* a processed document carries at most this many chunks
MaxUploadChunks == 1

\* rag_service.py:429
AskLimit == 5

\* rag_service.py:432
CouldNotFind == "I couldn't find relevant information in the uploaded documents."

\* the chunks process_document builds for a document (lines 243-268)
NewChunks(doc_id, room_id, n) ==
    [i \in 1..n |-> [id |-> <<doc_id, i>>, document_id |-> doc_id, room_id |-> room_id,
                     embedding |-> <<4, 3>>]]

\* Rooms r1 (owner and only member u1) and r2 (u2). Document d2 of room r2
\* is stored, and document d1 of room r1 or no document in r1. An upload of
\* document d3, a delete request of user u1, a deletion of room r1 and a
\* question arrive.
RagInit ==
    /\ \E with_d1 \in BOOLEAN, up \in {"r1", "r2"}, n \in 0..MaxUploadChunks,
          del_room \in {"r1", "r2"}, del_doc \in {"d1", "d2", "d3"},
          requester \in {"u1", "u2"}, entry \in {"route", "slash"},
          ask_room \in {"r1", "r2"} :
          rag = [RagIdle EXCEPT
                    !.rooms = {"r1", "r2"},
                    !.room_members = {<<"r1", "u1">>, <<"r2", "u2">>},
                    !.documents = (IF with_d1 THEN <<[id |-> "d1", room_id |-> "r1"]>>
                                   ELSE <<>>) \o <<[id |-> "d2", room_id |-> "r2"]>>,
                    !.chunks = NewChunks("d1", "r1", IF with_d1 THEN 1 ELSE 0)
                                   \o NewChunks("d2", "r2", 1),
                    !.upload = [pc |-> "insert_document", room_id |-> up, chunks |-> n],
                    !.remove = [pc |-> "check", room_id |-> del_room, user_id |-> "u1",
                                document_id |-> del_doc, success |-> FALSE],
                    !.room_delete = [pc |-> "check", room_id |-> "r1",
                                     requester_id |-> requester],
                    !.ask = [@ EXCEPT !.pc = "search", !.entry = entry,
                                      !.room_id = ask_room]]
    /\ retry = RetryIdle
    /\ classifier = ClassifierIdle
    /\ chunker = ChunkerIdle
    /\ search = SearchIdle
    /\ roster = RosterIdle
    /\ runs = RunsIdle
    /\ PipelineIdle

\* process_document lines 225-285: a file without pages gives no document
\* (None); otherwise the chunks are built and embedded and the document
\* record is inserted
ProcessInsertDocument ==
    /\ rag.upload.pc = "insert_document"
    /\ \E pages \in {"none", "some"} :
          rag' = IF pages = "none"
                 THEN [rag EXCEPT !.upload.pc = "failed"]
                 ELSE [rag EXCEPT
                          !.documents = Append(@, [id |-> "d3",
                                                   room_id |-> rag.upload.room_id]),
                          !.upload.pc = "insert_chunks"]
    /\ UNCHANGED <<pipelineVars, retry, classifier, chunker, search, roster, runs>>

\* lines 288-289: the chunks are inserted, when there are any
ProcessInsertChunks ==
    /\ rag.upload.pc = "insert_chunks"
    /\ rag' = [rag EXCEPT
                  !.chunks = @ \o NewChunks("d3", rag.upload.room_id, rag.upload.chunks),
                  !.upload.pc = "done"]
    /\ UNCHANGED <<pipelineVars, retry, classifier, chunker, search, roster, runs>>

\* documents.py:197-203: the caller must be a member of the room of the
\* path (RoomService.is_member), or the request is refused (403)
DeleteCheckMember ==
    /\ rag.remove.pc = "check"
    \* the id of the new document is known once its record is stored
    /\ rag.remove.document_id = "d3" => rag.upload.pc \in {"insert_chunks", "done"}
    /\ rag' = [rag EXCEPT
                  !.remove.pc = IF <<rag.remove.room_id, rag.remove.user_id>>
                                      \in rag.room_members
                                THEN "delete_chunks" ELSE "refused"]
    /\ UNCHANGED <<pipelineVars, retry, classifier, chunker, search, roster, runs>>

\* RAGService.delete_document line 471:
\* chunks_collection.delete_many({"document_id": document_id})
DeleteChunks ==
    /\ rag.remove.pc = "delete_chunks"
    /\ LET Kept(c) == c.document_id # rag.remove.document_id IN
       rag' = [rag EXCEPT !.chunks = SelectSeq(@, Kept),
                          !.remove.pc = "delete_document"]
    /\ UNCHANGED <<pipelineVars, retry, classifier, chunker, search, roster, runs>>

\* RAGService.delete_document lines 474-476 and documents.py:208-221:
\* documents_collection.delete_one({"id": document_id}); 404 when no
\* record was deleted
DeleteDocumentRecord ==
    /\ rag.remove.pc = "delete_document"
    /\ LET Kept(d) == d.id # rag.remove.document_id IN
       rag' = [rag EXCEPT
                  !.documents = SelectSeq(@, Kept),
                  !.remove.success = SelectSeq(rag.documents, Kept) # rag.documents,
                  !.remove.pc = "done"]
    /\ UNCHANGED <<pipelineVars, retry, classifier, chunker, search, roster, runs>>

\* RoomService.delete_room lines 181-190: only the owner (u1 for r1, u2 for
\* r2) of an existing room deletes it; the room, its members and its
\* messages, tasks, goals and knowledge base go
RoomDeleteRecords ==
    /\ rag.room_delete.pc = "check"
    /\ LET room_id == rag.room_delete.room_id
           owner_id == IF room_id = "r1" THEN "u1" ELSE "u2"
       IN  rag' = IF room_id \notin rag.rooms \/ owner_id # rag.room_delete.requester_id
                  THEN [rag EXCEPT !.room_delete.pc = "refused"]
                  ELSE [rag EXCEPT
                           !.rooms = @ \ {room_id},
                           !.room_members = {m \in @ : m[1] # room_id},
                           !.room_delete.pc = "delete_documents"]
    /\ UNCHANGED <<pipelineVars, retry, classifier, chunker, search, roster, runs>>

\* line 191: documents.delete_many({"room_id": room_id})
RoomDeleteDocuments ==
    /\ rag.room_delete.pc = "delete_documents"
    /\ LET Kept(d) == d.room_id # rag.room_delete.room_id IN
       rag' = [rag EXCEPT !.documents = SelectSeq(@, Kept),
                          !.room_delete.pc = "delete_chunks"]
    /\ UNCHANGED <<pipelineVars, retry, classifier, chunker, search, roster, runs>>

\* line 192: document_chunks.delete_many({"room_id": room_id})
RoomDeleteChunks ==
    /\ rag.room_delete.pc = "delete_chunks"
    /\ LET Kept(c) == c.room_id # rag.room_delete.room_id IN
       rag' = [rag EXCEPT !.chunks = SelectSeq(@, Kept),
                          !.room_delete.pc = "done"]
    /\ UNCHANGED <<pipelineVars, retry, classifier, chunker, search, roster, runs>>

\* ask_document line 429: the chunks closest to the question. `fetched`
\* is the number of chunks the room has when they are read.
AskSearch ==
    /\ rag.ask.pc = "search"
    /\ \E o \in EmbedOutcomes :
          rag' = [rag EXCEPT
                     !.ask.relevant_chunks =
                         semantic_search(rag.chunks, rag.ask.room_id,
                                         generate_embedding(o), AskLimit),
                     !.ask.fetched =
                         Cardinality({i \in 1..Len(rag.chunks) :
                                         rag.chunks[i].room_id = rag.ask.room_id}),
                     !.ask.pc = "answer"]
    /\ UNCHANGED <<pipelineVars, retry, classifier, chunker, search, roster, runs>>

\* ask_document lines 431-466: without chunks the fixed answer; otherwise
\* the model is asked for response.text, and its failure gives the error
\* text. The route (documents.py:182-184) returns the answer, /ask
\* (ws.py:85-86) puts a heading before it.
AskAnswer ==
    /\ rag.ask.pc = "answer"
    /\ \E outcome \in {"text", "raised"} :
          LET generated == rag.ask.relevant_chunks # <<>>
              answer == IF ~generated THEN CouldNotFind
                        ELSE IF outcome = "text" THEN "answer"
                        ELSE "I encountered an error while processing your question."
          IN  rag' = [rag EXCEPT
                         !.ask.generated = generated,
                         !.ask.answer = answer,
                         !.ask.reply = IF rag.ask.entry = "slash"
                                       THEN <<"U+1F4DA **Document Q&A:**\n\n", answer>>
                                       ELSE <<answer>>,
                         !.ask.pc = "done"]
    /\ UNCHANGED <<pipelineVars, retry, classifier, chunker, search, roster, runs>>

RagNext ==
    \/ ProcessInsertDocument
    \/ ProcessInsertChunks
    \/ DeleteCheckMember
    \/ DeleteChunks
    \/ DeleteDocumentRecord
    \/ RoomDeleteRecords
    \/ RoomDeleteDocuments
    \/ RoomDeleteChunks
    \/ AskSearch
    \/ AskAnswer

RagSpec == RagInit /\ [][RagNext]_vars

\* C21: when the room has no chunk at the moment ask_document reads them,
\* the retrieval gives the empty list, the answer (through the route and
\* through /ask) is the fixed text of rag_service.py:432 and the text
\* model is not called.
C21_EmptyRoomGetsFixedAnswer ==
    (rag.ask.pc = "done" /\ rag.ask.fetched = 0)
        => /\ rag.ask.relevant_chunks = <<>>
           /\ rag.ask.answer = CouldNotFind
           /\ ~rag.ask.generated
           /\ rag.ask.reply[Len(rag.ask.reply)] = CouldNotFind

C21_Witness ==
    /\ rag.ask.pc = "done"
    /\ rag.ask.fetched = 0
    /\ rag.ask.entry = "slash"
    /\ rag.chunks # <<>>
    /\ rag.ask.answer = CouldNotFind

\* the requests on documents have all returned
RagQuiet ==
    /\ rag.upload.pc \in {"done", "failed"}
    /\ rag.remove.pc \in {"done", "refused"}
    /\ rag.room_delete.pc \in {"done", "refused"}

\* C27 as stated: once the requests in flight have completed, every stored
\* chunk names a stored document, and after delete_document(d) has returned
\* no chunk of d is stored.
C27_ChunksLiveAndDieWithDocument ==
    /\ RagQuiet =>
          \A i \in 1..Len(rag.chunks) :
             \E j \in 1..Len(rag.documents) :
                rag.documents[j].id = rag.chunks[i].document_id
    /\ rag.remove.pc = "done" =>
          \A i \in 1..Len(rag.chunks) :
             rag.chunks[i].document_id # rag.remove.document_id

\* C29 as stated: a delete request made through the documents route of a
\* room by a member of that room removes no document and no chunk of
\* another room.
C29_DeleteConfinedToRoom ==
    [][(rag.remove.pc \in {"delete_chunks", "delete_document"}
            /\ rag'.remove.pc # rag.remove.pc)
        => /\ \A i \in 1..Len(rag.documents) :
                 (\A j \in 1..Len(rag'.documents) : rag'.documents[j] # rag.documents[i])
                     => rag.documents[i].room_id = rag.remove.room_id
           /\ \A i \in 1..Len(rag.chunks) :
                 (\A j \in 1..Len(rag'.chunks) : rag'.chunks[j] # rag.chunks[i])
                     => rag.chunks[i].room_id = rag.remove.room_id]_vars

(***************************************************************************)
(* Assignee resolution: ToolExecutor._get_room_members and                 *)
(* _find_member_by_username (app/ai/tool_executor.py:35-49, 162-170)       *)
(***************************************************************************)
\* a room of the model has at most this many human members
MaxMembers == 2

\* an executor is asked for the roster of a room whose members (as
\* RoomService.get_room_members lists them) are some of Ali, Freya and
\* Eve, and then for the member a name stands for; the name is absent,
\* or some text
RosterInit ==
    /\ \E n \in 0..MaxMembers :
          \E members \in [1..n -> { [id |-> "u1", username |-> NameAli],
                                    [id |-> "u2", username |-> <<"F", "r", "e", "y", "a">>],
                                    [id |-> "u3", username |-> <<"E", "v", "e">>] }],
             username \in {NoArg, ReqAli, ReqZed, <<"Y", "A">>, <<"e">>, <<"F", "r", "e">>,
                           <<"E", "V", "E">>, <<"v", "e">>} :
             /\ \A i, j \in 1..n : i # j => members[i] # members[j]
             /\ roster = [RosterIdle EXCEPT !.pc = "members", !.members = members,
                                            !.username = username]
    /\ retry = RetryIdle
    /\ classifier = ClassifierIdle
    /\ chunker = ChunkerIdle
    /\ search = SearchIdle
    /\ rag = RagIdle
    /\ runs = RunsIdle
    /\ PipelineIdle

\* _get_room_members: the memo of the executor when it has the room (a
\* new executor, as handle_message makes one for each run, has not);
\* otherwise the AI and then the members, which the memo keeps
RosterGetMembers ==
    /\ roster.pc = "members"
    /\ LET member_list == IF roster.cache # <<>> THEN roster.cache
                          ELSE <<[id |-> "ai", username |-> NameVeya]>> \o roster.members
       IN  roster' = [roster EXCEPT !.cache = member_list, !.room_members = member_list,
                                    !.pc = "find"]
    /\ UNCHANGED <<pipelineVars, retry, classifier, chunker, search, rag, runs>>

\* _execute_tool lines 301-305: the name is resolved on the roster
RosterFind ==
    /\ roster.pc = "find"
    /\ roster' = [roster EXCEPT
                     !.member = find_member_by_username(roster.room_members,
                                                        roster.username),
                     !.pc = "done"]
    /\ UNCHANGED <<pipelineVars, retry, classifier, chunker, search, rag, runs>>

RosterNext == RosterGetMembers \/ RosterFind

RosterSpec == RosterInit /\ [][RosterNext]_vars

\* the places of the roster whose lower-cased username contains the
\* lower-cased name
Matching(members, username) ==
    {i \in 1..Len(members) : Contains(Lower(members[i].username), Lower(username))}

\* C25: the roster has the AI (id "ai") as its first member; the member
\* found is the first of the roster whose lower-cased username contains the
\* lower-cased name, none for an absent name or when no member matches; so
\* a name that is part of the AI's username gives the AI, a human member
\* matching or not.
C25_FirstMatchWins ==
    roster.pc = "done" =>
        LET members == roster.room_members
            hits == Matching(members, roster.username)
        IN  /\ members[1].id = "ai"
            /\ (roster.username = NoArg \/ hits = {}) => roster.member = None
            /\ (roster.username # NoArg /\ hits # {}) =>
                  \E i \in hits :
                     /\ \A j \in hits : i <= j
                     /\ roster.member = [kind |-> "member", id |-> members[i].id]
            /\ (roster.username # NoArg /\ 1 \in hits) => roster.member.id = "ai"

C25_Witness ==
    /\ roster.pc = "done"
    /\ roster.username = <<"Y", "A">>
    /\ roster.member.kind = "member"
    /\ roster.member.id = "ai"
    /\ \E i \in 2..Len(roster.room_members) :
          i \in Matching(roster.room_members, roster.username)

(***************************************************************************)
(* Two runs of AICoordinator.handle_message at the same time               *)
(* (app/ai/ai_coordinator.py:165-225, app/ai/tool_executor.py:31-49,       *)
(* 196-281, app/ai/chat_responder.py:200-201). A run takes a step at the   *)
(* calls it awaits; the runs share the database and the module-level       *)
(* gemini_client and chat_responder, which keep nothing between calls.     *)
(* Every entry carries the conversation whose model proposed its call.     *)
(***************************************************************************)
\* a run's executor conversation proposes at most this many calls
MaxRunCalls == 2

\* one frame for both runs
FrameOf_Shared(run) == 1

\* the frame of a run: its ToolExecutor, made at ai_coordinator.py:179 with
\* an empty roster memo, and the locals executed_tools, tool_data and
\* reaction_emoji of execute_tools (tool_executor.py:218-220). Each call
\* has its own.
FrameOf(run) == run

\* run 1 is in room r1, run 2 in r1 or in r2; room r1 has one task
RunsInit ==
    /\ \E room2 \in {"r1", "r2"} :
          runs = [room_id |-> <<"r1", room2>>,
                  pc |-> <<"start", "start">>,
                  frames |-> [f \in 1..2 |->
                                 [memo |-> {}, executed_tools |-> <<>>,
                                  tool_data |-> <<>>, reaction_emoji |-> <<>>]],
                  ret |-> <<NotReturned, NotReturned>>,
                  tasks |-> <<"r1">>,
                  reactions |-> <<>>]
    /\ retry = RetryIdle
    /\ classifier = ClassifierIdle
    /\ chunker = ChunkerIdle
    /\ search = SearchIdle
    /\ roster = RosterIdle
    /\ rag = RagIdle
    /\ PipelineIdle

\* handle_message up to the executor's conversation: the executor is made
\* and the roster of the room fetched and memoised in it
RunStart(run) ==
    /\ runs.pc[run] = "start"
    /\ runs' = [runs EXCEPT
                   !.pc[run] = "loop",
                   !.frames[FrameOf(run)].memo = @ \cup {runs.room_id[run]}]
    /\ UNCHANGED <<pipelineVars, retry, classifier, chunker, search, roster, rag>>

\* one round of the tool loop: the model of the run's conversation proposes
\* a call, the tool writes to or reads from the database, and the entry is
\* appended to the run's accumulators (tool_executor.py:223-272)
RunToolCall(run) ==
    /\ runs.pc[run] = "loop"
    /\ Len(runs.frames[FrameOf(run)].executed_tools) < MaxRunCalls
    /\ \E name \in {"create_task", "react_to_message", "list_tasks"} :
          LET room_id == runs.room_id[run]
              InRoom(t) == t = room_id
              entry == [type |-> name, conversation |-> run,
                        data |-> IF name = "list_tasks"
                                 THEN Len(SelectSeq(runs.tasks, InRoom)) ELSE 0]
          IN  runs' = [runs EXCEPT
                          !.tasks = IF name = "create_task" THEN Append(@, room_id) ELSE @,
                          !.reactions = IF name = "react_to_message"
                                        THEN Append(@, run) ELSE @,
                          !.frames[FrameOf(run)].executed_tools = Append(@, entry),
                          !.frames[FrameOf(run)].tool_data =
                              IF name = "list_tasks" THEN <<entry>> ELSE @,
                          !.frames[FrameOf(run)].reaction_emoji =
                              IF name = "react_to_message" THEN <<entry>> ELSE @]
    /\ UNCHANGED <<pipelineVars, retry, classifier, chunker, search, roster, rag>>

\* the loop ends, execute_tools returns its accumulators, and the responder
\* is given the run's message and tool results (ai_coordinator.py:189-225);
\* the module-level chat_responder keeps nothing of a call
RunRespond(run) ==
    /\ runs.pc[run] = "loop"
    /\ LET frame == runs.frames[FrameOf(run)]
       IN  runs' = [runs EXCEPT
                       !.pc[run] = "done",
                       !.ret[run] = [kind |-> "result",
                                     tools_executed |-> frame.executed_tools,
                                     tool_data |-> frame.tool_data,
                                     reaction |-> frame.reaction_emoji,
                                     content |-> [message |-> run,
                                                  tool_results |-> frame.executed_tools]]]
    /\ UNCHANGED <<pipelineVars, retry, classifier, chunker, search, roster, rag>>

RunsNext == \E run \in 1..2 : RunStart(run) \/ RunToolCall(run) \/ RunRespond(run)

RunsSpec == RunsInit /\ [][RunsNext]_vars

\* every entry of the sequence was proposed in the conversation of the run
OwnEntries(entries, run) == \A i \in 1..Len(entries) : entries[i].conversation = run

\* C26: whatever the interleaving of two runs, in the same room or not, the
\* tools_executed, tool_data, reaction and content a run returns hold only
\* results of calls proposed in its own executor conversation, and the
\* roster memo of a run's executor holds the room of that run only.
C26_RunsAreIsolated ==
    \A run \in 1..2 :
        /\ runs.pc # <<>> => runs.frames[FrameOf(run)].memo \subseteq {runs.room_id[run]}
        /\ (runs.pc # <<>> /\ runs.pc[run] = "done") =>
              LET r == runs.ret[run]
              IN  /\ OwnEntries(r.tools_executed, run)
                  /\ OwnEntries(r.tool_data, run)
                  /\ OwnEntries(r.reaction, run)
                  /\ r.content.message = run
                  /\ r.content.tool_results = r.tools_executed

C26_Witness ==
    /\ runs.pc = <<"done", "done">>
    /\ runs.room_id = <<"r1", "r1">>
    /\ Len(runs.ret[1].tools_executed) = MaxRunCalls
    /\ Len(runs.ret[2].tools_executed) = MaxRunCalls
    /\ runs.ret[1].reaction # <<>>
    /\ runs.ret[2].tool_data # <<>>
    /\ runs.ret[2].tool_data[1].data > 1

====
